---- MODULE Spec2Model ----
(***************************************************************************)
(* Model of backend/price_optimizer.py: the price table, the nutritional   *)
(* equivalence table and the functions that read them.                     *)
(*                                                                         *)
(* A Python str is a sequence of one-character strings, so that lower()    *)
(* and strip() are computed and not assumed.  Prices are the integers of   *)
(* the table.  A max_price_ratio is the fraction num/den; the float test    *)
(* alt/orig <= ratio is alt*den <= num*orig, which agrees with IEEE        *)
(* division for prices of this size (correctly rounded quotients of small  *)
(* integers are ordered like the fractions, and equal fractions round to   *)
(* the same double).  savings_percent is kept in tenths of a percent.      *)
(***************************************************************************)
EXTENDS Integers, Sequences, FiniteSets, TLC

VARIABLES
    PRICE_DATABASE,           \* module global, price_optimizer.py:74
    NUTRITIONAL_EQUIVALENTS,  \* module global, price_optimizer.py:18
    pc,                       \* position of the caller: idle, llm_call, returned
    op,                       \* the function being called
    args,                     \* its arguments
    locals,                   \* locals of analyze_grocery_list_with_ai across the LLM call
    result,                   \* its return value
    previous,                 \* what the call before this one returned, when the
                              \* caller repeats analyze_grocery_list_with_ai
    other,                    \* what a second caller was returned while this one
                              \* waited for the LLM
    sessions,                 \* DietChatAgent.sessions, chat_agent.py:42
    chat_pc,                  \* position of the caller of the agent: idle, invoke,
                              \* llm, returned
    chat_op,                  \* the method being called
    chat_call,                \* arguments and locals of the call of chat()
    invoked,                  \* the argument of the latest self.llm.invoke
    chat_result,              \* the return value of the method
    transcript,               \* per session, what the user sent and was answered
                              \* since the session was last cleared
    cleared,                  \* the sessions deleted by clear_session and not
                              \* written to since
    main_pc,                  \* main.py: position of the request or call in progress
    main_op,                  \* the endpoint or helper being run
    main_args,                \* its arguments
    main_locals,              \* its locals
    main_result,              \* what it returned
    users,                    \* the rows of table users, in order of id (main.py:181)
    diet_plans,               \* the rows of table diet_plans, in order of id and
                              \* of created_at (main.py:198)
    weekly_checkins,          \* the rows of table weekly_checkins (main.py:232)
    progress_snapshots,       \* the rows of table progress_snapshots (main.py:267)
    calorie_adjustments,      \* the rows of table calorie_adjustments (main.py:297)
    answered,                 \* per plan, how many /weekly-checkin requests were
                              \* answered with success
    YOUTUBE_API_KEY,          \* module global, main.py:85
    recipe_video_cache        \* module global, main.py:95: a dict, kept as the
                              \* function from its keys to their values

optimizer_vars ==
    <<PRICE_DATABASE, NUTRITIONAL_EQUIVALENTS, pc, op, args, locals, result, previous, other>>

chat_vars ==
    <<sessions, chat_pc, chat_op, chat_call, invoked, chat_result, transcript, cleared>>

store_vars == <<users, diet_plans>>

checkin_vars ==
    <<weekly_checkins, progress_snapshots, calorie_adjustments, answered>>

cache_vars == <<YOUTUBE_API_KEY, recipe_video_cache>>

main_vars ==
    <<main_pc, main_op, main_args, main_locals, main_result, store_vars, checkin_vars,
      cache_vars>>

vars == <<optimizer_vars, chat_vars, main_vars>>

(***************************************************************************)
(* Bounds                                                                  *)
(***************************************************************************)
MaxListLen == 4

\* the caller repeats an analysis of at most this many items
MaxRepeatLen == 2

\* a second caller runs during the LLM call of an analysis of at most this
\* many items
MaxOverlapLen == 1

\* the largest max_retries call_ai_json is called with
MaxAiRetries == 3

\* rows of table users and of table diet_plans
MaxUsers == 3
MaxPlans == 3

\* rows of table weekly_checkins
MaxCheckins == 4

\* items of one category of a grocery list
MaxItems == 2

\* the plan ids a request may name
PlanIds == 1..(MaxPlans + 1)

None == [none |-> TRUE]

(***************************************************************************)
(* Ingredient names of the two tables, as character sequences              *)
(***************************************************************************)
paneer == <<"p","a","n","e","e","r">>
tofu == <<"t","o","f","u">>
cottage_cheese == <<"c","o","t","t","a","g","e"," ","c","h","e","e","s","e">>
greek_yogurt == <<"g","r","e","e","k"," ","y","o","g","u","r","t">>
boiled_eggs == <<"b","o","i","l","e","d"," ","e","g","g","s">>
chicken_breast == <<"c","h","i","c","k","e","n"," ","b","r","e","a","s","t">>
turkey_breast == <<"t","u","r","k","e","y"," ","b","r","e","a","s","t">>
fish_fillet == <<"f","i","s","h"," ","f","i","l","l","e","t">>
chickpeas == <<"c","h","i","c","k","p","e","a","s">>
avocado == <<"a","v","o","c","a","d","o">>
peanut_butter == <<"p","e","a","n","u","t"," ","b","u","t","t","e","r">>
almonds == <<"a","l","m","o","n","d","s">>
olive_oil == <<"o","l","i","v","e"," ","o","i","l">>
flaxseeds == <<"f","l","a","x","s","e","e","d","s">>
quinoa == <<"q","u","i","n","o","a">>
brown_rice == <<"b","r","o","w","n"," ","r","i","c","e">>
oats == <<"o","a","t","s">>
daliya == <<"d","a","l","i","y","a">>
whole_wheat == <<"w","h","o","l","e"," ","w","h","e","a","t">>
walnuts == <<"w","a","l","n","u","t","s">>
cashews == <<"c","a","s","h","e","w","s">>
peanuts == <<"p","e","a","n","u","t","s">>
sunflower_seeds == <<"s","u","n","f","l","o","w","e","r"," ","s","e","e","d","s">>
salmon == <<"s","a","l","m","o","n">>
mackerel == <<"m","a","c","k","e","r","e","l">>
sardines == <<"s","a","r","d","i","n","e","s">>
tuna == <<"t","u","n","a">>
chia_seeds == <<"c","h","i","a"," ","s","e","e","d","s">>
hung_curd == <<"h","u","n","g"," ","c","u","r","d">>
kale == <<"k","a","l","e">>
methi == <<"m","e","t","h","i">>
spinach == <<"s","p","i","n","a","c","h">>
broccoli == <<"b","r","o","c","c","o","l","i">>
cabbage == <<"c","a","b","b","a","g","e">>
sweet_potato == <<"s","w","e","e","t"," ","p","o","t","a","t","o">>
regular_potato == <<"r","e","g","u","l","a","r"," ","p","o","t","a","t","o">>
pumpkin == <<"p","u","m","p","k","i","n">>
carrots == <<"c","a","r","r","o","t","s">>
beetroot == <<"b","e","e","t","r","o","o","t">>

NutritionalEquivalentsSource ==
       (paneer :> [alternatives |-> <<tofu, cottage_cheese, greek_yogurt, boiled_eggs>>,
        nutrition_type |-> "high_protein_dairy"])
    @@ (chicken_breast :> [alternatives |-> <<turkey_breast, fish_fillet, tofu, paneer, chickpeas>>,
        nutrition_type |-> "lean_protein"])
    @@ (avocado :> [alternatives |-> <<peanut_butter, almonds, olive_oil, flaxseeds>>,
        nutrition_type |-> "healthy_fats"])
    @@ (quinoa :> [alternatives |-> <<brown_rice, oats, daliya, whole_wheat>>,
        nutrition_type |-> "complex_carbs"])
    @@ (almonds :> [alternatives |-> <<walnuts, cashews, peanuts, sunflower_seeds>>,
        nutrition_type |-> "nuts_healthy_fats"])
    @@ (salmon :> [alternatives |-> <<mackerel, sardines, tuna, flaxseeds, chia_seeds>>,
        nutrition_type |-> "omega3_protein"])
    @@ (greek_yogurt :> [alternatives |-> <<hung_curd, paneer, tofu, cottage_cheese>>,
        nutrition_type |-> "probiotic_protein"])
    @@ (spinach :> [alternatives |-> <<kale, methi, broccoli, cabbage>>,
        nutrition_type |-> "leafy_greens"])
    @@ (sweet_potato :> [alternatives |-> <<regular_potato, pumpkin, carrots, beetroot>>,
        nutrition_type |-> "complex_carbs_vitamins"])
    @@ (oats :> [alternatives |-> <<daliya, quinoa, brown_rice, whole_wheat>>,
        nutrition_type |-> "fiber_complex_carbs"])

PriceDatabaseSource ==
       (paneer :> [price |-> 80, unit |-> "100g", source |-> "blinkit"])
    @@ (tofu :> [price |-> 45, unit |-> "100g", source |-> "bigbasket"])
    @@ (cottage_cheese :> [price |-> 60, unit |-> "100g", source |-> "blinkit"])
    @@ (greek_yogurt :> [price |-> 70, unit |-> "100g", source |-> "blinkit"])
    @@ (boiled_eggs :> [price |-> 10, unit |-> "1pc", source |-> "local"])
    @@ (chicken_breast :> [price |-> 35, unit |-> "100g", source |-> "blinkit"])
    @@ (turkey_breast :> [price |-> 55, unit |-> "100g", source |-> "bigbasket"])
    @@ (fish_fillet :> [price |-> 50, unit |-> "100g", source |-> "blinkit"])
    @@ (chickpeas :> [price |-> 12, unit |-> "100g", source |-> "local"])
    @@ (avocado :> [price |-> 150, unit |-> "1pc", source |-> "blinkit"])
    @@ (peanut_butter :> [price |-> 40, unit |-> "100g", source |-> "bigbasket"])
    @@ (almonds :> [price |-> 90, unit |-> "100g", source |-> "blinkit"])
    @@ (olive_oil :> [price |-> 60, unit |-> "100ml", source |-> "bigbasket"])
    @@ (flaxseeds :> [price |-> 30, unit |-> "100g", source |-> "local"])
    @@ (quinoa :> [price |-> 80, unit |-> "100g", source |-> "bigbasket"])
    @@ (brown_rice :> [price |-> 25, unit |-> "100g", source |-> "blinkit"])
    @@ (oats :> [price |-> 20, unit |-> "100g", source |-> "blinkit"])
    @@ (daliya :> [price |-> 18, unit |-> "100g", source |-> "local"])
    @@ (whole_wheat :> [price |-> 15, unit |-> "100g", source |-> "local"])
    @@ (walnuts :> [price |-> 120, unit |-> "100g", source |-> "blinkit"])
    @@ (cashews :> [price |-> 100, unit |-> "100g", source |-> "blinkit"])
    @@ (peanuts :> [price |-> 25, unit |-> "100g", source |-> "local"])
    @@ (sunflower_seeds :> [price |-> 35, unit |-> "100g", source |-> "local"])
    @@ (salmon :> [price |-> 180, unit |-> "100g", source |-> "bigbasket"])
    @@ (mackerel :> [price |-> 80, unit |-> "100g", source |-> "blinkit"])
    @@ (sardines :> [price |-> 60, unit |-> "100g", source |-> "blinkit"])
    @@ (tuna :> [price |-> 100, unit |-> "100g", source |-> "bigbasket"])
    @@ (chia_seeds :> [price |-> 50, unit |-> "100g", source |-> "bigbasket"])
    @@ (hung_curd :> [price |-> 55, unit |-> "100g", source |-> "blinkit"])
    @@ (kale :> [price |-> 40, unit |-> "100g", source |-> "bigbasket"])
    @@ (methi :> [price |-> 15, unit |-> "100g", source |-> "local"])
    @@ (spinach :> [price |-> 20, unit |-> "100g", source |-> "local"])
    @@ (broccoli :> [price |-> 35, unit |-> "100g", source |-> "blinkit"])
    @@ (cabbage :> [price |-> 12, unit |-> "100g", source |-> "local"])
    @@ (sweet_potato :> [price |-> 30, unit |-> "100g", source |-> "blinkit"])
    @@ (regular_potato :> [price |-> 15, unit |-> "100g", source |-> "local"])
    @@ (pumpkin :> [price |-> 18, unit |-> "100g", source |-> "local"])
    @@ (carrots :> [price |-> 20, unit |-> "100g", source |-> "local"])
    @@ (beetroot :> [price |-> 22, unit |-> "100g", source |-> "local"])

(***************************************************************************)
(* Price tables the module can be loaded with.  The source table is the    *)
(* simulated one of the file; per its comment the prices come from scraped *)
(* sources in production, so a price may be absent or different.  Every    *)
(* price is positive.                                                      *)
(***************************************************************************)
Without(db, names) == [n \in (DOMAIN db) \ names |-> db[n]]

Repriced(db, prices) ==
    [n \in DOMAIN db |->
        IF n \in DOMAIN prices THEN [db[n] EXCEPT !.price = prices[n]] ELSE db[n]]

\* tofu (a listed substitute) and spinach (a key of the equivalence table)
\* have no price entry
PriceDatabaseGaps == Without(PriceDatabaseSource, {tofu, spinach})

\* equal prices among substitutes, substitutes only between 0.8 and 1.5 of
\* the original (oats), a best saving of exactly 20 at ratio 0.6 (sweet
\* potato), a substitute at the price of the original (hung curd), and
\* substitutes dearer than the original (avocado)
PriceDatabaseRepriced ==
    Repriced(PriceDatabaseSource,
             (cottage_cheese :> 45) @@ (whole_wheat :> 18) @@ (quinoa :> 30)
             @@ (sweet_potato :> 50) @@ (regular_potato :> 30) @@ (pumpkin :> 30)
             @@ (carrots :> 40) @@ (beetroot :> 45) @@ (hung_curd :> 70)
             @@ (peanut_butter :> 155) @@ (almonds :> 160) @@ (olive_oil :> 170))

\* tofu is the only substitute of paneer within 0.8 of its price, and chicken
\* breast has none
PriceDatabaseScenario ==
    Without(PriceDatabaseSource, {boiled_eggs, cottage_cheese, chickpeas})

PriceTables ==
    {PriceDatabaseSource, PriceDatabaseGaps, PriceDatabaseRepriced, PriceDatabaseScenario}

(***************************************************************************)
(* str.lower() and str.strip()                                             *)
(***************************************************************************)
UpperToLower ==
    ("A" :> "a") @@ ("B" :> "b") @@ ("C" :> "c") @@ ("D" :> "d") @@ ("E" :> "e") @@ ("F" :> "f")
    @@ ("G" :> "g") @@ ("H" :> "h") @@ ("I" :> "i") @@ ("J" :> "j") @@ ("K" :> "k") @@ ("L" :> "l")
    @@ ("M" :> "m") @@ ("N" :> "n") @@ ("O" :> "o") @@ ("P" :> "p") @@ ("Q" :> "q") @@ ("R" :> "r")
    @@ ("S" :> "s") @@ ("T" :> "t") @@ ("U" :> "u") @@ ("V" :> "v") @@ ("W" :> "w") @@ ("X" :> "x")
    @@ ("Y" :> "y") @@ ("Z" :> "z")

Whitespace == {" ", "\t", "\n", "\r"}

Lower(s) == [i \in 1..Len(s) |-> IF s[i] \in DOMAIN UpperToLower THEN UpperToLower[s[i]] ELSE s[i]]

RECURSIVE LStrip(_)
LStrip(s) == IF s = <<>> \/ Head(s) \notin Whitespace THEN s ELSE LStrip(Tail(s))

RECURSIVE RStrip(_)
RStrip(s) ==
    IF s = <<>> \/ s[Len(s)] \notin Whitespace THEN s ELSE RStrip(SubSeq(s, 1, Len(s) - 1))

Strip(s) == RStrip(LStrip(s))

(***************************************************************************)
(* get_ingredient_price                                                    *)
(***************************************************************************)
\* PRICE_DATABASE.get(ingredient): no lower(), no strip()
get_ingredient_price_exact(ingredient) ==
    IF ingredient \in DOMAIN PRICE_DATABASE THEN PRICE_DATABASE[ingredient] ELSE None

get_ingredient_price_default(ingredient) ==
    LET ingredient_lower == Strip(Lower(ingredient))
    IN  IF ingredient_lower \in DOMAIN PRICE_DATABASE
        THEN PRICE_DATABASE[ingredient_lower]
        ELSE [price |-> 100, unit |-> "100g", source |-> "local"]

get_ingredient_price(ingredient) ==
    LET ingredient_lower == Strip(Lower(ingredient))
    IN  IF ingredient_lower \in DOMAIN PRICE_DATABASE
        THEN PRICE_DATABASE[ingredient_lower]
        ELSE None

(***************************************************************************)
(* round(x, 1) of x = 100 * num / den, in tenths: the nearest tenth, a tie *)
(* going to the even one                                                   *)
(***************************************************************************)
\* the digits after the first decimal are cut off
RoundTenths_floor(num, den) == (1000 * num) \div den

RoundTenths(num, den) ==
    LET n == 1000 * num
        q == n \div den
        r == n % den
    IN  IF 2 * r < den THEN q
        ELSE IF 2 * r > den THEN q + 1
        ELSE IF q % 2 = 0 THEN q ELSE q + 1

(***************************************************************************)
(* list.sort(key=lambda x: x["savings"], reverse=True): a stable sort,     *)
(* entries of equal savings keep their order                               *)
(***************************************************************************)
\* an entry is placed before the entries of equal savings
RECURSIVE InsertBySavings_unstable(_, _)
InsertBySavings_unstable(sorted, x) ==
    IF sorted = <<>> THEN <<x>>
    ELSE IF Head(sorted).savings > x.savings
         THEN <<Head(sorted)>> \o InsertBySavings_unstable(Tail(sorted), x)
         ELSE <<x>> \o sorted

RECURSIVE InsertBySavings(_, _)
InsertBySavings(sorted, x) ==
    IF sorted = <<>> THEN <<x>>
    ELSE IF Head(sorted).savings >= x.savings
         THEN <<Head(sorted)>> \o InsertBySavings(Tail(sorted), x)
         ELSE <<x>> \o sorted

SortBySavingsDesc_unsorted(l) == l

RECURSIVE SortBySavingsDesc(_)
SortBySavingsDesc(l) ==
    IF l = <<>> THEN <<>>
    ELSE InsertBySavings(SortBySavingsDesc(SubSeq(l, 1, Len(l) - 1)), l[Len(l)])

(***************************************************************************)
(* find_cheaper_alternatives                                               *)
(***************************************************************************)
Ratio(num, den) == [num |-> num, den |-> den]

\* max_price_ratio: float = 0.8
DefaultMaxPriceRatio_half == Ratio(1, 2)

DefaultMaxPriceRatio == Ratio(4, 5)

PriceRatioOk_strict(alt_price, original_price, max_price_ratio) ==
    alt_price.price * max_price_ratio.den < max_price_ratio.num * original_price.price

PriceRatioOk(alt_price, original_price, max_price_ratio) ==
    alt_price.price * max_price_ratio.den <= max_price_ratio.num * original_price.price

Suggestion(alt, alt_price, original_price, alternatives_data) ==
    [alternative       |-> alt,
     original_price    |-> original_price.price,
     alternative_price |-> alt_price.price,
     savings           |-> original_price.price - alt_price.price,
     savings_percent   |-> RoundTenths(original_price.price - alt_price.price,
                                       original_price.price),
     nutrition_type    |-> alternatives_data.nutrition_type,
     source            |-> alt_price.source]

\* break instead of continue at a substitute without price
RECURSIVE CollectCheaper_break(_, _, _, _)
CollectCheaper_break(alts, original_price, alternatives_data, max_price_ratio) ==
    IF alts = <<>> THEN <<>>
    ELSE LET alt       == Head(alts)
             alt_price == get_ingredient_price(alt)
             rest      == CollectCheaper_break(Tail(alts), original_price,
                                               alternatives_data, max_price_ratio)
         IN  IF alt_price = None THEN <<>>
             ELSE IF PriceRatioOk(alt_price, original_price, max_price_ratio)
                  THEN <<Suggestion(alt, alt_price, original_price, alternatives_data)>>
                       \o rest
                  ELSE rest

RECURSIVE CollectCheaper(_, _, _, _)
CollectCheaper(alts, original_price, alternatives_data, max_price_ratio) ==
    IF alts = <<>> THEN <<>>
    ELSE LET alt       == Head(alts)
             alt_price == get_ingredient_price(alt)
             rest      == CollectCheaper(Tail(alts), original_price,
                                         alternatives_data, max_price_ratio)
         IN  IF alt_price = None THEN rest
             ELSE IF PriceRatioOk(alt_price, original_price, max_price_ratio)
                  THEN <<Suggestion(alt, alt_price, original_price, alternatives_data)>>
                       \o rest
                  ELSE rest

find_cheaper_alternatives(ingredient, max_price_ratio) ==
    LET ingredient_lower == Strip(Lower(ingredient))
    IN  IF ingredient_lower \notin DOMAIN NUTRITIONAL_EQUIVALENTS THEN <<>>
        ELSE LET original_price == get_ingredient_price(ingredient_lower)
             IN  IF original_price = None THEN <<>>
                 ELSE LET alternatives_data == NUTRITIONAL_EQUIVALENTS[ingredient_lower]
                      IN  SortBySavingsDesc(
                              CollectCheaper(alternatives_data.alternatives,
                                             original_price, alternatives_data,
                                             max_price_ratio))

(***************************************************************************)
(* all_swaps: a dict, kept as the sequence of its items in insertion       *)
(* order; assigning to a key that is present replaces its value in place   *)
(***************************************************************************)
DictKeys(d) == {d[i].key : i \in 1..Len(d)}

DictSet(d, k, v) ==
    IF k \in DictKeys(d)
    THEN [i \in 1..Len(d) |-> IF d[i].key = k THEN [key |-> k, value |-> v] ELSE d[i]]
    ELSE Append(d, [key |-> k, value |-> v])

(***************************************************************************)
(* analyze_grocery_list_with_ai, up to the LLM call: the loop over the     *)
(* grocery list                                                            *)
(***************************************************************************)
AnalyzeStep_last(acc, ingredient) ==
    LET price_info   == get_ingredient_price(ingredient)
        original     == IF price_info # None
                        THEN acc.total_original_cost + price_info.price
                        ELSE acc.total_original_cost
        alternatives == find_cheaper_alternatives(ingredient, DefaultMaxPriceRatio)
    IN  IF alternatives # <<>>
        THEN [all_swaps            |-> DictSet(acc.all_swaps, ingredient, alternatives),
              total_original_cost  |-> original,
              total_optimized_cost |-> acc.total_optimized_cost
                                         + alternatives[Len(alternatives)].alternative_price]
        ELSE [all_swaps            |-> acc.all_swaps,
              total_original_cost  |-> original,
              total_optimized_cost |-> IF price_info # None
                                       THEN acc.total_optimized_cost + price_info.price
                                       ELSE acc.total_optimized_cost]

AnalyzeStep(acc, ingredient) ==
    LET price_info   == get_ingredient_price(ingredient)
        original     == IF price_info # None
                        THEN acc.total_original_cost + price_info.price
                        ELSE acc.total_original_cost
        alternatives == find_cheaper_alternatives(ingredient, DefaultMaxPriceRatio)
    IN  IF alternatives # <<>>
        THEN [all_swaps            |-> DictSet(acc.all_swaps, ingredient, alternatives),
              total_original_cost  |-> original,
              total_optimized_cost |-> acc.total_optimized_cost
                                         + alternatives[1].alternative_price]
        ELSE [all_swaps            |-> acc.all_swaps,
              total_original_cost  |-> original,
              total_optimized_cost |-> IF price_info # None
                                       THEN acc.total_optimized_cost + price_info.price
                                       ELSE acc.total_optimized_cost]

RECURSIVE AnalyzeLoop(_, _)
AnalyzeLoop(acc, grocery_list) ==
    IF grocery_list = <<>> THEN acc
    ELSE AnalyzeLoop(AnalyzeStep(acc, Head(grocery_list)), Tail(grocery_list))

AnalyzeTotals(grocery_list) ==
    AnalyzeLoop([all_swaps |-> <<>>, total_original_cost |-> 0,
                 total_optimized_cost |-> 0], grocery_list)

(***************************************************************************)
(* The price table after the loop.  The loop reads the table through       *)
(* get_ingredient_price and find_cheaper_alternatives and stores only in   *)
(* its locals.                                                             *)
(***************************************************************************)
\* the loop writes the price of the best substitute into the entry that
\* get_ingredient_price handed out
PriceDatabaseAfterAnalyze_applies_swaps(db, all_swaps) ==
    [k \in DOMAIN db |->
        IF \E i \in 1..Len(all_swaps) : Strip(Lower(all_swaps[i].key)) = k
        THEN LET i == CHOOSE j \in 1..Len(all_swaps) : Strip(Lower(all_swaps[j].key)) = k
             IN  [db[k] EXCEPT !.price = all_swaps[i].value[1].alternative_price]
        ELSE db[k]]

PriceDatabaseAfterAnalyze(db, all_swaps) == db

(***************************************************************************)
(* The response text of the LLM and the extraction of its JSON part.       *)
(* Indices are Python's: 0-based, -1 for not found.                        *)
(***************************************************************************)
StartsAt(s, sub, i) ==
    /\ i + Len(sub) <= Len(s)
    /\ \A k \in 1..Len(sub) : s[i + k] = sub[k]

\* s.find(sub, start)
Find(s, sub, start) ==
    LET hits == {i \in start..Len(s) : StartsAt(s, sub, i)}
    IN  IF hits = {} THEN -1 ELSE CHOOSE i \in hits : \A j \in hits : i <= j

\* s.rfind(sub)
RFind(s, sub) ==
    LET hits == {i \in 0..Len(s) : StartsAt(s, sub, i)}
    IN  IF hits = {} THEN -1 ELSE CHOOSE i \in hits : \A j \in hits : i >= j

\* s[a:b] for a >= 0
Slice(s, a, b) ==
    LET hi == IF b < 0 THEN (IF Len(s) + b < 0 THEN 0 ELSE Len(s) + b)
              ELSE IF b > Len(s) THEN Len(s) ELSE b
    IN  IF a >= hi THEN <<>> ELSE SubSeq(s, a + 1, hi)

\* the character U+0060, which a TLA+ string cannot hold
Backtick == "bt"

FenceJson == <<Backtick, Backtick, Backtick, "j", "s", "o", "n">>
Fence     == <<Backtick, Backtick, Backtick>>

ExtractJson(response_text) ==
    IF Find(response_text, FenceJson, 0) # -1
    THEN LET json_start == Find(response_text, FenceJson, 0) + 7
             json_end   == Find(response_text, Fence, json_start)
         IN  Strip(Slice(response_text, json_start, json_end))
    ELSE IF Find(response_text, <<"{">>, 0) # -1 /\ Find(response_text, <<"}">>, 0) # -1
    THEN LET json_start == Find(response_text, <<"{">>, 0)
             json_end   == RFind(response_text, <<"}">>) + 1
         IN  Slice(response_text, json_start, json_end)
    ELSE response_text

\* json.loads on the texts of ResponseTexts: an empty object or a one-digit
\* number, surrounded by whitespace, parses; anything else raises
Digits ==
    ("0" :> 0) @@ ("1" :> 1) @@ ("2" :> 2) @@ ("3" :> 3) @@ ("4" :> 4)
    @@ ("5" :> 5) @@ ("6" :> 6) @@ ("7" :> 7) @@ ("8" :> 8) @@ ("9" :> 9)

JsonLoads(json_str) ==
    LET t == Strip(json_str)
    IN  IF t = <<"{", "}">> THEN [ok |-> TRUE, value |-> [object |-> <<>>]]
        ELSE IF Len(t) = 1 /\ t[1] \in DOMAIN Digits
             THEN [ok |-> TRUE, value |-> [number |-> Digits[t[1]]]]
             ELSE [ok |-> FALSE, exc |-> "JSONDecodeError"]

(***************************************************************************)
(* analyze_grocery_list_with_ai, from the LLM call on                      *)
(***************************************************************************)
\* the try block: the value of ai_response, or the exception raised
TryAiResponse(llm) ==
    IF llm.raised THEN [ok |-> FALSE, exc |-> llm.exc]
    ELSE JsonLoads(ExtractJson(llm.text))

\* except json.JSONDecodeError as e
ExceptException_json(exc) == exc = "JSONDecodeError"

\* except Exception as e
ExceptException(exc) == TRUE

SuccessResult(ai_response, l) ==
    [success            |-> TRUE,
     ai_analysis        |-> ai_response,
     all_possible_swaps |-> l.all_swaps,
     original_cost      |-> l.total_original_cost,
     optimized_cost     |-> l.total_optimized_cost,
     max_savings        |-> l.total_original_cost - l.total_optimized_cost]

TopSwaps(all_swaps) ==
    LET first == SubSeq(all_swaps, 1, IF Len(all_swaps) < 3 THEN Len(all_swaps) ELSE 3)
    IN  [i \in 1..Len(first) |->
            LET best_alt == first[i].value[1]
            IN  [original    |-> first[i].key,
                 replacement |-> best_alt.alternative,
                 reason      |-> <<"Save", best_alt.savings, best_alt.savings_percent>>,
                 savings     |-> best_alt.savings]]

FallbackResult(l) ==
    [success            |-> TRUE,
     ai_analysis        |->
         [recommended_swaps   |-> TopSwaps(l.all_swaps),
          total_savings       |-> l.total_original_cost - l.total_optimized_cost,
          nutrition_notes     |-> "All alternatives maintain similar nutritional profiles.",
          personalized_advice |-> "Focus on swapping expensive items first for maximum savings!"],
     all_possible_swaps |-> l.all_swaps,
     original_cost      |-> l.total_original_cost,
     optimized_cost     |-> l.total_optimized_cost,
     max_savings        |-> l.total_original_cost - l.total_optimized_cost]

AnalyzeReturn(llm, l) ==
    LET try == TryAiResponse(llm)
    IN  IF try.ok THEN SuccessResult(try.value, l)
        ELSE IF ExceptException(try.exc) THEN FallbackResult(l)
        ELSE [raised |-> try.exc]

(***************************************************************************)
(* auto_optimize_grocery_list                                              *)
(***************************************************************************)
\* both modes ask for substitutes up to one and a half times the price
AutoMaxPriceRatio_any(budget_mode) == Ratio(3, 2)

AutoMaxPriceRatio_loose(budget_mode) == IF budget_mode THEN Ratio(3, 2) ELSE Ratio(3, 5)

AutoMaxPriceRatio(budget_mode) == IF budget_mode THEN Ratio(4, 5) ELSE Ratio(3, 5)

MinSavings == 20

ShouldSwap_atleast(alternatives, budget_mode) ==
    alternatives # <<>> /\ (budget_mode \/ alternatives[1].savings >= MinSavings)

ShouldSwap(alternatives, budget_mode) ==
    alternatives # <<>> /\ (budget_mode \/ alternatives[1].savings > MinSavings)

\* an item that is kept is recorded in swaps_made as a swap for itself
AutoStep_logs_kept(acc, ingredient, budget_mode) ==
    LET alternatives == find_cheaper_alternatives(ingredient, AutoMaxPriceRatio(budget_mode))
    IN  IF ShouldSwap(alternatives, budget_mode)
        THEN LET best_alt == alternatives[1]
             IN  [optimized_list |-> Append(acc.optimized_list, best_alt.alternative),
                  swaps_made     |-> Append(acc.swaps_made,
                                        [original        |-> ingredient,
                                         replacement     |-> best_alt.alternative,
                                         savings         |-> best_alt.savings,
                                         savings_percent |-> best_alt.savings_percent]),
                  total_savings  |-> acc.total_savings + best_alt.savings]
        ELSE [optimized_list |-> Append(acc.optimized_list, ingredient),
              swaps_made     |-> Append(acc.swaps_made,
                                    [original        |-> ingredient,
                                     replacement     |-> ingredient,
                                     savings         |-> 0,
                                     savings_percent |-> 0]),
              total_savings  |-> acc.total_savings]

AutoStep_drop(acc, ingredient, budget_mode) ==
    LET alternatives == find_cheaper_alternatives(ingredient, AutoMaxPriceRatio(budget_mode))
    IN  IF ShouldSwap(alternatives, budget_mode)
        THEN LET best_alt == alternatives[1]
             IN  [optimized_list |-> Append(acc.optimized_list, best_alt.alternative),
                  swaps_made     |-> Append(acc.swaps_made,
                                        [original        |-> ingredient,
                                         replacement     |-> best_alt.alternative,
                                         savings         |-> best_alt.savings,
                                         savings_percent |-> best_alt.savings_percent]),
                  total_savings  |-> acc.total_savings + best_alt.savings]
        ELSE acc

AutoStep(acc, ingredient, budget_mode) ==
    LET alternatives == find_cheaper_alternatives(ingredient, AutoMaxPriceRatio(budget_mode))
    IN  IF ShouldSwap(alternatives, budget_mode)
        THEN LET best_alt == alternatives[1]
             IN  [optimized_list |-> Append(acc.optimized_list, best_alt.alternative),
                  swaps_made     |-> Append(acc.swaps_made,
                                        [original        |-> ingredient,
                                         replacement     |-> best_alt.alternative,
                                         savings         |-> best_alt.savings,
                                         savings_percent |-> best_alt.savings_percent]),
                  total_savings  |-> acc.total_savings + best_alt.savings]
        ELSE [acc EXCEPT !.optimized_list = Append(acc.optimized_list, ingredient)]

RECURSIVE AutoLoop(_, _, _)
AutoLoop(acc, grocery_list, budget_mode) ==
    IF grocery_list = <<>> THEN acc
    ELSE AutoLoop(AutoStep(acc, Head(grocery_list), budget_mode),
                  Tail(grocery_list), budget_mode)

\* the swaps are written into the caller's list, which is then returned
\* under both keys
auto_optimize_grocery_list_in_place(grocery_list, budget_mode) ==
    LET acc == AutoLoop([optimized_list |-> <<>>, swaps_made |-> <<>>,
                         total_savings |-> 0], grocery_list, budget_mode)
    IN  [original_list  |-> acc.optimized_list,
         optimized_list |-> acc.optimized_list,
         swaps_made     |-> acc.swaps_made,
         total_savings  |-> acc.total_savings,
         budget_mode    |-> budget_mode]

\* an empty list is answered with an error
auto_optimize_grocery_list_rejects_empty(grocery_list, budget_mode) ==
    IF grocery_list = <<>> THEN [success |-> FALSE, error |-> "empty grocery list"]
    ELSE LET acc == AutoLoop([optimized_list |-> <<>>, swaps_made |-> <<>>,
                              total_savings |-> 0], grocery_list, budget_mode)
         IN  [original_list  |-> grocery_list,
              optimized_list |-> acc.optimized_list,
              swaps_made     |-> acc.swaps_made,
              total_savings  |-> acc.total_savings,
              budget_mode    |-> budget_mode]

auto_optimize_grocery_list(grocery_list, budget_mode) ==
    LET acc == AutoLoop([optimized_list |-> <<>>, swaps_made |-> <<>>, total_savings |-> 0],
                        grocery_list, budget_mode)
    IN  [original_list  |-> grocery_list,
         optimized_list |-> acc.optimized_list,
         swaps_made     |-> acc.swaps_made,
         total_savings  |-> acc.total_savings,
         budget_mode    |-> budget_mode]

(***************************************************************************)
(* Inputs                                                                  *)
(***************************************************************************)
unicorn_meat == <<"u","n","i","c","o","r","n"," ","m","e","a","t">>
PaneerPadded == <<" ","P","a","n","e","e","r"," ">>

IngredientInputs ==
    {paneer, PaneerPadded, chicken_breast, oats, spinach, salmon, sweet_potato,
     greek_yogurt, tofu, unicorn_meat}

\* names for get_ingredient_price: keys, keys in other case or padded with
\* whitespace, and prefixes, parts and near misses of keys
PriceLookupInputs ==
    {paneer, PaneerPadded, tofu, unicorn_meat,
     <<"P","A","N","E","E","R">>,
     <<"\t","T","o","f","u","\n">>,
     <<" "," ","h","u","n","g"," ","c","u","r","d">>,
     <<"p","a","n","e">>,
     <<"p","a","n","e","e","r","s">>,
     <<"c","h","i","c","k","e","n">>,
     <<"b","r","e","a","s","t">>,
     <<"h","u","n","g"," "," ","c","u","r","d">>,
     <<"t","o","f","u",".">>,
     <<" "," ">>,
     <<>>}

OverlapInputs == {paneer, salmon}

PriceRatios == {Ratio(0, 1), Ratio(3, 5), Ratio(4, 5), Ratio(1, 1), Ratio(3, 2)}

GroceryItems == {PaneerPadded, spinach, salmon, oats, sweet_potato, tofu, unicorn_meat}

GroceryLists ==
    UNION {[1..n -> GroceryItems] : n \in 0..MaxListLen} \cup {<<paneer, chicken_breast>>}

\* what anthropic_client.messages.create does: it raises, or it returns a
\* message whose text is one of these
ResponseTexts ==
    {FenceJson \o <<"\n", "{", "}", "\n">> \o Fence,
     <<"o","k"," ","{","}"," ","o","k">>,
     <<"7">>,
     <<"s","o","r","r","y">>,
     FenceJson \o <<"{", "}">>,
     <<"}","{">>}

LLMOutcomes ==
    {[raised |-> TRUE, exc |-> "APIError"]}
    \cup {[raised |-> FALSE, text |-> t] : t \in ResponseTexts}

(***************************************************************************)
(* get_price_alert_ingredients                                             *)
(***************************************************************************)
\* the dict price_spikes, as the sequence of its items
price_spikes ==
    <<[key   |-> avocado,
       value |-> [normal_price |-> 120, current_price |-> 150, increase_percent |-> 25]],
      [key   |-> salmon,
       value |-> [normal_price |-> 150, current_price |-> 180, increase_percent |-> 20]]>>

AlertMaxPriceRatio == Ratio(3, 2)

MaxAlertAlternatives == 2

\* alternatives[:2] if alternatives else []
FirstAlternatives(alternatives) ==
    SubSeq(alternatives, 1,
           IF Len(alternatives) < MaxAlertAlternatives THEN Len(alternatives)
           ELSE MaxAlertAlternatives)

RECURSIVE AlertLoop(_, _)
AlertLoop(alerts, items) ==
    IF items = <<>> THEN alerts
    ELSE LET ingredient == Head(items).key
             spike_data == Head(items).value
         IN  IF ingredient \in DOMAIN NUTRITIONAL_EQUIVALENTS
             THEN LET alternatives == find_cheaper_alternatives(ingredient, AlertMaxPriceRatio)
                  IN  AlertLoop(
                          Append(alerts,
                                 [ingredient           |-> ingredient,
                                  normal_price         |-> spike_data.normal_price,
                                  current_price        |-> spike_data.current_price,
                                  increase_percent     |-> spike_data.increase_percent,
                                  status               |-> "price_spike",
                                  cheaper_alternatives |-> FirstAlternatives(alternatives)]),
                          Tail(items))
             ELSE AlertLoop(alerts, Tail(items))

get_price_alert_ingredients == AlertLoop(<<>>, price_spikes)

(***************************************************************************)
(* State machine                                                           *)
(***************************************************************************)
NoArgs == [none |-> TRUE]

SessionIds == {"test_session_123", "plan_7"}

\* the fields of the result of analyze_grocery_list_with_ai that the function
\* computes itself
NumericOutput(r) ==
    [original_cost      |-> r.original_cost,
     optimized_cost     |-> r.optimized_cost,
     max_savings        |-> r.max_savings,
     all_possible_swaps |-> r.all_possible_swaps]

Init ==
    /\ PRICE_DATABASE \in PriceTables
    /\ NUTRITIONAL_EQUIVALENTS = NutritionalEquivalentsSource
    /\ pc = "idle"
    /\ op = "none"
    /\ args = NoArgs
    /\ locals = None
    /\ result = None
    /\ previous = None
    /\ other = None
    /\ sessions = <<>>
    /\ chat_pc = "idle"
    /\ chat_op = "none"
    /\ chat_call = None
    /\ invoked = None
    /\ chat_result = None
    /\ transcript = [s \in SessionIds |-> <<>>]
    /\ cleared = {}
    /\ main_pc = "idle"
    /\ main_op = "none"
    /\ main_args = None
    /\ main_locals = None
    /\ main_result = None
    /\ users = <<>>
    /\ diet_plans = <<>>
    /\ weekly_checkins = <<>>
    /\ progress_snapshots = <<>>
    /\ calorie_adjustments = <<>>
    /\ answered = [p \in PlanIds |-> 0]
    /\ YOUTUBE_API_KEY = [set |-> FALSE]
    /\ recipe_video_cache = <<>>

GetIngredientPrice ==
    /\ pc = "idle"
    /\ \E ingredient \in PriceLookupInputs :
          /\ args' = [ingredient |-> ingredient]
          /\ result' = get_ingredient_price(ingredient)
    /\ op' = "get_ingredient_price"
    /\ pc' = "returned"
    /\ UNCHANGED <<PRICE_DATABASE, NUTRITIONAL_EQUIVALENTS, locals, previous, other>>
    /\ UNCHANGED chat_vars
    /\ UNCHANGED main_vars

FindCheaperAlternatives ==
    /\ pc = "idle"
    /\ \E ingredient \in IngredientInputs, max_price_ratio \in PriceRatios :
          /\ args' = [ingredient |-> ingredient, max_price_ratio |-> max_price_ratio]
          /\ result' = find_cheaper_alternatives(ingredient, max_price_ratio)
    /\ op' = "find_cheaper_alternatives"
    /\ pc' = "returned"
    /\ UNCHANGED <<PRICE_DATABASE, NUTRITIONAL_EQUIVALENTS, locals, previous, other>>
    /\ UNCHANGED chat_vars
    /\ UNCHANGED main_vars

AnalyzeGroceryList ==
    /\ pc = "idle"
    /\ \E grocery_list \in GroceryLists :
          /\ args' = [grocery_list |-> grocery_list]
          /\ locals' = AnalyzeTotals(grocery_list)
          /\ PRICE_DATABASE' =
                PriceDatabaseAfterAnalyze(PRICE_DATABASE, AnalyzeTotals(grocery_list).all_swaps)
    /\ op' = "analyze_grocery_list_with_ai"
    /\ pc' = "llm_call"
    /\ UNCHANGED <<NUTRITIONAL_EQUIVALENTS, result, previous, other>>
    /\ UNCHANGED chat_vars
    /\ UNCHANGED main_vars

\* the caller repeats the call it has just had answered, with the same list
AnalyzeGroceryListAgain ==
    /\ pc = "returned"
    /\ op = "analyze_grocery_list_with_ai"
    /\ Len(args.grocery_list) <= MaxRepeatLen
    /\ previous' = NumericOutput(result)
    /\ args' = [grocery_list |-> args.grocery_list]
    /\ locals' = AnalyzeTotals(args.grocery_list)
    /\ PRICE_DATABASE' =
          PriceDatabaseAfterAnalyze(PRICE_DATABASE, AnalyzeTotals(args.grocery_list).all_swaps)
    /\ pc' = "llm_call"
    /\ UNCHANGED <<NUTRITIONAL_EQUIVALENTS, op, result, other>>
    /\ UNCHANGED chat_vars
    /\ UNCHANGED main_vars

\* while the analysis waits for the LLM, a second caller has
\* find_cheaper_alternatives run from call to return
ConcurrentFindCheaperAlternatives ==
    /\ pc = "llm_call"
    /\ other = None
    /\ Len(args.grocery_list) <= MaxOverlapLen
    /\ \E ingredient \in OverlapInputs :
          other' = [ingredient |-> ingredient,
                    result     |-> find_cheaper_alternatives(ingredient, DefaultMaxPriceRatio)]
    /\ UNCHANGED <<PRICE_DATABASE, NUTRITIONAL_EQUIVALENTS, pc, op, args, locals, result,
                   previous>>
    /\ UNCHANGED chat_vars
    /\ UNCHANGED main_vars

AnalyzeLLMReturns ==
    /\ pc = "llm_call"
    /\ \E llm \in LLMOutcomes :
          /\ args' = [grocery_list |-> args.grocery_list, llm |-> llm]
          /\ result' = AnalyzeReturn(llm, locals)
    /\ pc' = "returned"
    /\ UNCHANGED <<PRICE_DATABASE, NUTRITIONAL_EQUIVALENTS, op, locals, previous, other>>
    /\ UNCHANGED chat_vars
    /\ UNCHANGED main_vars

AutoOptimizeGroceryList ==
    /\ pc = "idle"
    /\ \E grocery_list \in GroceryLists, budget_mode \in BOOLEAN :
          /\ args' = [grocery_list |-> grocery_list, budget_mode |-> budget_mode]
          /\ result' = auto_optimize_grocery_list(grocery_list, budget_mode)
    /\ op' = "auto_optimize_grocery_list"
    /\ pc' = "returned"
    /\ UNCHANGED <<PRICE_DATABASE, NUTRITIONAL_EQUIVALENTS, locals, previous, other>>
    /\ UNCHANGED chat_vars
    /\ UNCHANGED main_vars

GetPriceAlertIngredients ==
    /\ pc = "idle"
    /\ args' = NoArgs
    /\ result' = get_price_alert_ingredients
    /\ op' = "get_price_alert_ingredients"
    /\ pc' = "returned"
    /\ UNCHANGED <<PRICE_DATABASE, NUTRITIONAL_EQUIVALENTS, locals, previous, other>>
    /\ UNCHANGED chat_vars
    /\ UNCHANGED main_vars

Return ==
    /\ pc = "returned"
    /\ pc' = "idle"
    /\ op' = "none"
    /\ args' = NoArgs
    /\ locals' = None
    /\ result' = None
    /\ previous' = None
    /\ other' = None
    /\ UNCHANGED <<PRICE_DATABASE, NUTRITIONAL_EQUIVALENTS>>
    /\ UNCHANGED chat_vars
    /\ UNCHANGED main_vars

Next ==
    \/ GetIngredientPrice
    \/ FindCheaperAlternatives
    \/ AnalyzeGroceryList
    \/ AnalyzeGroceryListAgain
    \/ ConcurrentFindCheaperAlternatives
    \/ AnalyzeLLMReturns
    \/ AutoOptimizeGroceryList
    \/ GetPriceAlertIngredients
    \/ Return

Spec == Init /\ [][Next]_vars

(***************************************************************************)
(* DietChatAgent (chat_agent.py).  A message is a record of its class      *)
(* (system, human, ai) and its content; an InMemoryChatMessageHistory is   *)
(* the list of its messages, to which add_message appends.  A text is the  *)
(* sequence of the pieces it is put together from.                         *)
(***************************************************************************)
\* chat() calls in all sessions together
MaxTurns == 3

\* the same, where termination is checked
MaxFairTurns == 2

\* the first line of self.system_prompt
system_prompt == <<"You are a helpful, friendly AI diet and nutrition assistant.">>

SystemMessage(content) == [type |-> "system", content |-> content]
HumanMessage(content) == [type |-> "human", content |-> content]
AIMessage(content) == [type |-> "ai", content |-> content]

\* a new history starts empty
get_or_create_session_no_system(table, session_id) ==
    IF session_id \notin DOMAIN table
    THEN [s \in DOMAIN table \cup {session_id} |->
            IF s = session_id THEN <<>> ELSE table[s]]
    ELSE table

\* every call starts a history of its own
get_or_create_session_fresh(table, session_id) ==
    [s \in DOMAIN table \cup {session_id} |->
        IF s = session_id THEN <<SystemMessage(system_prompt)>> ELSE table[s]]

\* self.sessions after get_or_create_session(session_id)
get_or_create_session(table, session_id) ==
    IF session_id \notin DOMAIN table
    THEN [s \in DOMAIN table \cup {session_id} |->
            IF s = session_id THEN <<SystemMessage(system_prompt)>> ELSE table[s]]
    ELSE table

\* history.add_message(message) for the history of session_id
add_message(table, session_id, message) ==
    [table EXCEPT ![session_id] = Append(@, message)]

\* the keys _format_context looks for, in its order, with the text put
\* before and after the value
ContextParts ==
    <<[key |-> "goal", before |-> "Goal: ", after |-> ""],
      [key |-> "daily_calories", before |-> "Daily Calories: ", after |-> ""],
      [key |-> "current_weight", before |-> "Current Weight: ", after |-> "kg"],
      [key |-> "target_weight", before |-> "Target Weight: ", after |-> "kg"],
      [key |-> "dietary_preferences", before |-> "Diet Type: ", after |-> ""],
      [key |-> "medical_issues", before |-> "Medical Considerations: ", after |-> ""]>>

RECURSIVE FormatParts(_, _)
FormatParts(context, keys) ==
    IF keys = <<>> THEN <<>>
    ELSE LET k == Head(keys)
             rest == FormatParts(context, Tail(keys))
         IN  IF /\ k.key \in DOMAIN context
                /\ (k.key = "medical_issues" => context[k.key] # "None")
             THEN <<<<k.before, context[k.key], k.after>>>> \o rest
             ELSE rest

\* _format_context: the parts that ", ".join puts together, as a list
format_context(context) == FormatParts(context, ContextParts)

\* if context: a dict that is given and not empty
Truthy(context) == context # None /\ DOMAIN context # {}

enhanced_message(user_message, context) ==
    IF Truthy(context)
    THEN <<"[User Context: ", format_context(context), "]\n\nUser Question: ">>
             \o user_message
    ELSE user_message

max_retries == 2

retryable_errors ==
    <<<<"o","v","e","r","l","o","a","d","e","d">>, <<"5","2","9">>,
      <<"c","o","n","n","e","c","t","i","o","n">>, <<"t","i","m","e","o","u","t">>,
      <<"r","a","t","e"," ","l","i","m","i","t">>, <<"4","2","9">>>>

\* err in error_str
Contains(error_str, err) == Find(error_str, err, 0) # -1

is_retryable(error_str) ==
    \E i \in 1..Len(retryable_errors) : Contains(error_str, retryable_errors[i])

\* every error is tried again while attempts are left
ExceptBranch_retries_all(e, attempt) ==
    IF attempt < max_retries - 1
    THEN [retry |-> TRUE]
    ELSE [retry |-> FALSE, error_msg |-> <<"Sorry, I encountered an error: ", e>>]

\* the except branch of the retry loop for the exception text e raised by
\* attempt number attempt: another attempt, or the message that chat()
\* stores and returns (the texts without their closing emoji)
ExceptBranch(e, attempt) ==
    LET error_str == Lower(e)
    IN  IF is_retryable(error_str) /\ attempt < max_retries - 1
        THEN [retry |-> TRUE]
        ELSE IF is_retryable(error_str)
        THEN [retry     |-> FALSE,
              error_msg |->
                 IF Contains(error_str, <<"o","v","e","r","l","o","a","d","e","d">>) \/ Contains(error_str, <<"5","2","9">>)
                 THEN <<"I'm experiencing high demand right now. Please try again in a moment!">>
                 ELSE IF Contains(error_str, <<"t","i","m","e","o","u","t">>) \/ Contains(error_str, <<"c","o","n","n","e","c","t","i","o","n">>)
                 THEN <<"Connection timeout. The AI service is responding slowly. Please try again!">>
                 ELSE <<"The AI service is temporarily unavailable. Please try again shortly!">>]
        ELSE [retry |-> FALSE, error_msg |-> <<"Sorry, I encountered an error: ", e>>]

\* get_conversation_history: the messages but the system ones, as role and
\* content
RECURSIVE CleanMessages(_)
CleanMessages(messages) ==
    IF messages = <<>> THEN <<>>
    ELSE LET msg == Head(messages)
         IN  IF msg.type = "system" THEN CleanMessages(Tail(messages))
             ELSE <<[role    |-> IF msg.type = "human" THEN "user" ELSE "assistant",
                     content |-> msg.content]>> \o CleanMessages(Tail(messages))

get_conversation_history(table, session_id) ==
    IF session_id \notin DOMAIN table THEN <<>> ELSE CleanMessages(table[session_id])

\* the history is emptied and the session kept
clear_session_resets(table, session_id) ==
    [s \in DOMAIN table |-> IF s = session_id THEN <<>> ELSE table[s]]

\* every session is deleted
clear_session_all(table, session_id) ==
    IF session_id \in DOMAIN table THEN <<>> ELSE table

\* self.sessions after clear_session(session_id)
clear_session(table, session_id) ==
    [s \in DOMAIN table \ {session_id} |-> table[s]]

(***************************************************************************)
(* Inputs of the chat agent                                                *)
(***************************************************************************)
EmptyContext == [k \in {} |-> ""]

TestContext ==
    [goal |-> "weight_loss", dietary_preferences |-> "vegetarian",
     daily_calories |-> "1800 kcal/day"]

ChatInputs ==
    {[user_message |-> <<"What are good protein sources for vegetarians?">>,
      context      |-> TestContext],
     [user_message |-> <<"Can you suggest a meal plan using those foods?">>,
      context      |-> None],
     [user_message |-> <<"Can you suggest a meal plan using those foods?">>,
      context      |-> EmptyContext]}

\* what self.llm.invoke does: it returns a response with this content, or
\* it raises an exception with one of these texts
LLMReplies == {<<"Lentils, tofu and paneer.">>}

LLMErrors ==
    {<<"O","v","e","r","l","o","a","d","e","d">>,
     <<"i","n","v","a","l","i","d"," ","x","-","a","p","i","-","k","e","y">>}

ChatLLMOutcomes ==
    {[raised |-> FALSE, content |-> c] : c \in LLMReplies}
    \cup {[raised |-> TRUE, text |-> e] : e \in LLMErrors}

(***************************************************************************)
(* State machine of the chat agent.  The endpoints of main.py are          *)
(* coroutines that call the agent without awaiting, so one call of the     *)
(* agent ends before the next begins.                                      *)
(***************************************************************************)
InitChat ==
    /\ PRICE_DATABASE = PriceDatabaseSource
    /\ NUTRITIONAL_EQUIVALENTS = NutritionalEquivalentsSource
    /\ pc = "idle"
    /\ op = "none"
    /\ args = NoArgs
    /\ locals = None
    /\ result = None
    /\ previous = None
    /\ other = None
    /\ sessions = <<>>
    /\ chat_pc = "idle"
    /\ chat_op = "none"
    /\ chat_call = None
    /\ invoked = None
    /\ chat_result = None
    /\ transcript = [s \in SessionIds |-> <<>>]
    /\ cleared = {}
    /\ main_pc = "idle"
    /\ main_op = "none"
    /\ main_args = None
    /\ main_locals = None
    /\ main_result = None
    /\ users = <<>>
    /\ diet_plans = <<>>
    /\ weekly_checkins = <<>>
    /\ progress_snapshots = <<>>
    /\ calorie_adjustments = <<>>
    /\ answered = [p \in PlanIds |-> 0]
    /\ YOUTUBE_API_KEY = [set |-> FALSE]
    /\ recipe_video_cache = <<>>

HumanCount(messages) ==
    Cardinality({i \in 1..Len(messages) : messages[i].type = "human"})

RECURSIVE HumanStored(_)
HumanStored(ids) ==
    IF ids = {} THEN 0
    ELSE LET s == CHOOSE x \in ids : TRUE
         IN  HumanCount(sessions[s]) + HumanStored(ids \ {s})

\* chat(), up to the retry loop, while fewer than max_turns calls are stored
ChatWithin(max_turns) ==
    /\ chat_pc = "idle"
    /\ HumanStored(DOMAIN sessions) < max_turns
    /\ \E session_id \in SessionIds, input \in ChatInputs :
          LET history == get_or_create_session(sessions, session_id)
              message == enhanced_message(input.user_message, input.context)
          IN  /\ sessions' = add_message(history, session_id, HumanMessage(message))
              /\ chat_call' = [session_id   |-> session_id,
                               user_message |-> input.user_message,
                               context      |-> input.context,
                               attempt      |-> 0,
                               raised       |-> <<>>]
              /\ cleared' = cleared \ {session_id}
              /\ transcript' = [transcript EXCEPT ![session_id] =
                                  Append(@, [role         |-> "user",
                                             user_message |-> input.user_message,
                                             context      |-> input.context])]
    /\ chat_op' = "chat"
    /\ chat_pc' = "invoke"
    /\ UNCHANGED <<invoked, chat_result>>
    /\ UNCHANGED optimizer_vars
    /\ UNCHANGED main_vars

Chat == ChatWithin(MaxTurns)

\* response = self.llm.invoke(messages), the call
ChatInvoke ==
    /\ chat_pc = "invoke"
    /\ invoked' = sessions[chat_call.session_id]
    /\ chat_pc' = "llm"
    /\ UNCHANGED <<sessions, chat_op, chat_call, chat_result, transcript, cleared>>
    /\ UNCHANGED optimizer_vars
    /\ UNCHANGED main_vars

\* what chat() stores and returns once the loop is left
ChatAnswer(content) ==
    /\ sessions' = add_message(sessions, chat_call.session_id, AIMessage(content))
    /\ transcript' = [transcript EXCEPT ![chat_call.session_id] =
                        Append(@, [role |-> "assistant", content |-> content])]
    /\ chat_result' = content
    /\ chat_pc' = "returned"

\* self.llm.invoke returns or raises
ChatLLMAnswers ==
    /\ chat_pc = "llm"
    /\ \E outcome \in ChatLLMOutcomes :
          IF ~outcome.raised
          THEN /\ ChatAnswer(outcome.content)
               /\ UNCHANGED chat_call
          ELSE LET branch == ExceptBranch(outcome.text, chat_call.attempt)
               IN  IF branch.retry
                   THEN /\ chat_call' = [chat_call EXCEPT !.attempt = @ + 1,
                                                          !.raised = Append(@, outcome.text)]
                        /\ chat_pc' = "invoke"
                        /\ UNCHANGED <<sessions, transcript, chat_result>>
                   ELSE /\ ChatAnswer(branch.error_msg)
                        /\ chat_call' = [chat_call EXCEPT !.raised = Append(@, outcome.text)]
    /\ UNCHANGED <<chat_op, invoked, cleared>>
    /\ UNCHANGED optimizer_vars
    /\ UNCHANGED main_vars

GetConversationHistory ==
    /\ chat_pc = "idle"
    /\ \E session_id \in SessionIds :
          /\ chat_call' = [session_id |-> session_id]
          /\ chat_result' = get_conversation_history(sessions, session_id)
    /\ chat_op' = "get_conversation_history"
    /\ chat_pc' = "returned"
    /\ UNCHANGED <<sessions, invoked, transcript, cleared>>
    /\ UNCHANGED optimizer_vars
    /\ UNCHANGED main_vars

ClearSession ==
    /\ chat_pc = "idle"
    /\ \E session_id \in SessionIds :
          /\ chat_call' = [session_id |-> session_id]
          /\ chat_result' = (session_id \in DOMAIN sessions)
          /\ sessions' = clear_session(sessions, session_id)
          /\ transcript' = [transcript EXCEPT ![session_id] = <<>>]
          /\ cleared' = IF session_id \in DOMAIN sessions
                        THEN cleared \cup {session_id} ELSE cleared
    /\ chat_op' = "clear_session"
    /\ chat_pc' = "returned"
    /\ UNCHANGED invoked
    /\ UNCHANGED optimizer_vars
    /\ UNCHANGED main_vars

ChatReturn ==
    /\ chat_pc = "returned"
    /\ chat_pc' = "idle"
    /\ chat_op' = "none"
    /\ chat_call' = None
    /\ invoked' = None
    /\ chat_result' = None
    /\ UNCHANGED <<sessions, transcript, cleared>>
    /\ UNCHANGED optimizer_vars
    /\ UNCHANGED main_vars

NextChat ==
    \/ Chat
    \/ ChatInvoke
    \/ ChatLLMAnswers
    \/ GetConversationHistory
    \/ ClearSession
    \/ ChatReturn

SpecChat == InitChat /\ [][NextChat]_vars

\* a call of chat() that has begun keeps running: llm.invoke is called and
\* returns or raises (timeout=90.0 at line 37), and the sleep of the retry
\* ends
ChatShort == ChatWithin(MaxFairTurns)

NextChatShort ==
    \/ ChatShort
    \/ ChatInvoke
    \/ ChatLLMAnswers
    \/ GetConversationHistory
    \/ ClearSession
    \/ ChatReturn

FairSpecChat ==
    /\ InitChat
    /\ [][NextChatShort]_vars
    /\ WF_vars(ChatInvoke)
    /\ WF_vars(ChatLLMAnswers)

(***************************************************************************)
(* main.py: call_ai_json.  client.chat.completions.create raises, or it    *)
(* returns a response whose content is a text or None.                     *)
(***************************************************************************)
AiContents ==
    {<<"{", "}">>,
     <<" ", "{", "}", "\n">>,
     <<"7">>,
     <<"s","o","r","r","y">>,
     <<"{">>}

AiOutcomes ==
    {[raised |-> TRUE, exc |-> "APITimeoutError"],
     [raised |-> TRUE, exc |-> "RateLimitError"],
     [raised |-> FALSE, content_is_none |-> TRUE]}
    \cup {[raised |-> FALSE, content |-> c] : c \in AiContents}

\* the values of max_retries a caller passes
AiMaxRetries == (-1)..MaxAiRetries

\* the try block of one attempt: the parsed value, or the exception raised
\* by the client or by json.loads (a TypeError for a content of None)
TryAttempt(outcome) ==
    IF outcome.raised THEN [ok |-> FALSE, exc |-> outcome.exc]
    ELSE IF "content" \notin DOMAIN outcome THEN [ok |-> FALSE, exc |-> "TypeError"]
    ELSE JsonLoads(outcome.content)

\* if attempt == max_retries - 1, decided at the first attempt
IsLastAttempt_first(attempt, retries) == attempt = 0

\* if attempt == max_retries - 1
IsLastAttempt(attempt, retries) == attempt = retries - 1

AiFailed(exc) == [error |-> "AI generation failed", details |-> exc]

AiFailedAfterRetries == [error |-> "AI generation failed after retries"]

(***************************************************************************)
(* State machine of call_ai_json.  main_locals.seen lists what the client  *)
(* did at each call made so far.                                           *)
(***************************************************************************)
InitMain == InitChat

CallAiJson ==
    /\ main_pc = "idle"
    /\ \E retries \in AiMaxRetries :
          /\ main_args' = [max_retries |-> retries]
          /\ IF retries > 0
             THEN /\ main_pc' = "ai_call"
                  /\ main_locals' = [attempt |-> 0, seen |-> <<>>]
                  /\ main_result' = None
             ELSE /\ main_pc' = "returned"
                  /\ main_locals' = [attempt |-> 0, seen |-> <<>>]
                  /\ main_result' = AiFailedAfterRetries
    /\ main_op' = "call_ai_json"
    /\ UNCHANGED store_vars
    /\ UNCHANGED checkin_vars
    /\ UNCHANGED cache_vars
    /\ UNCHANGED optimizer_vars
    /\ UNCHANGED chat_vars

AiAnswers ==
    /\ main_pc = "ai_call"
    /\ main_op = "call_ai_json"
    /\ \E outcome \in AiOutcomes :
          LET tried == TryAttempt(outcome)
              seen  == Append(main_locals.seen, outcome)
          IN  IF tried.ok
              THEN /\ main_pc' = "returned"
                   /\ main_result' = tried.value
                   /\ main_locals' = [main_locals EXCEPT !.seen = seen]
              ELSE IF IsLastAttempt(main_locals.attempt, main_args.max_retries)
              THEN /\ main_pc' = "returned"
                   /\ main_result' = AiFailed(tried.exc)
                   /\ main_locals' = [main_locals EXCEPT !.seen = seen]
              ELSE IF main_locals.attempt + 1 < main_args.max_retries
              THEN /\ main_pc' = "ai_call"
                   /\ main_result' = None
                   /\ main_locals' = [attempt |-> main_locals.attempt + 1, seen |-> seen]
              ELSE /\ main_pc' = "returned"
                   /\ main_result' = AiFailedAfterRetries
                   /\ main_locals' = [main_locals EXCEPT !.seen = seen]
    /\ UNCHANGED <<main_op, main_args>>
    /\ UNCHANGED store_vars
    /\ UNCHANGED checkin_vars
    /\ UNCHANGED cache_vars
    /\ UNCHANGED optimizer_vars
    /\ UNCHANGED chat_vars

MainReturn ==
    /\ main_pc = "returned"
    /\ main_pc' = "idle"
    /\ main_op' = "none"
    /\ main_args' = None
    /\ main_locals' = None
    /\ main_result' = None
    /\ UNCHANGED store_vars
    /\ UNCHANGED checkin_vars
    /\ UNCHANGED cache_vars
    /\ UNCHANGED optimizer_vars
    /\ UNCHANGED chat_vars

NextAi ==
    \/ CallAiJson
    \/ AiAnswers
    \/ MainReturn

SpecAi == InitMain /\ [][NextAi]_vars

(***************************************************************************)
(* main.py: /generate-diet and /save-plan.  A user row is its phone, a     *)
(* plan row its user_id, title and grocery_json; the id of a row is its     *)
(* index, and plans                                                        *)
(* are created one after the other, so a later plan has a later            *)
(* created_at.  The endpoints are coroutines without an await, so one      *)
(* request ends before the next begins.                                    *)
(***************************************************************************)
Phones == {"", "0000000000", "9876543210"}

Titles == {"Cutting", "Week 1"}

\* f"{profile.goal} - {profile.region} Plan"
GeneratedTitle == "Weight Loss - North Indian Plan"

\* the ids a request may name: those of the rows and one that no row has
UserIds == 1..(MaxUsers + 1)

\* db.query(User).filter(User.phone == phone).first(): the id, 0 for None
UserWithPhone(rows, phone) ==
    LET found == {i \in 1..Len(rows) : rows[i].phone = phone}
    IN  IF found = {} THEN 0 ELSE CHOOSE i \in found : \A j \in found : i <= j

\* db.query(User).filter(User.id == user_id).first()
UserWithId(rows, user_id) ==
    IF user_id \in 1..Len(rows) THEN user_id ELSE 0

\* db.query(DietPlan).filter(DietPlan.user_id == user_id)
\*   .order_by(DietPlan.created_at.desc()).first()
LatestPlanOf(plans, user_id) ==
    LET found == {i \in 1..Len(plans) : plans[i].user_id = user_id}
    IN  IF found = {} THEN 0 ELSE CHOOSE i \in found : \A j \in found : j <= i

\* if req.phone:
PhoneGiven(phone) == phone # ""

\* the phone is taken as that of a returning user whoever holds it
IsReturningUser_never(existing_user, current_user) == FALSE

\* if existing_user and existing_user.id != current_user.id
IsReturningUser(existing_user, current_user) ==
    existing_user # 0 /\ existing_user # current_user

HttpError(status, detail) == [status |-> status, detail |-> detail]

HttpOk(body) == [status |-> 200, body |-> body]

\* what the AI call and the database do during /generate-diet
DietOutcomes == {"plan", "ai_error", "db_error"}

GenerateDiet ==
    /\ main_pc = "idle"
    /\ \E phone \in Phones, outcome \in DietOutcomes :
          LET found   == UserWithPhone(users, phone)
              db_user == IF found # 0 THEN found ELSE Len(users) + 1
              stored  == IF found # 0 THEN users ELSE Append(users, [phone |-> phone])
          IN  /\ found # 0 \/ Len(users) < MaxUsers
              /\ outcome = "plan" => Len(diet_plans) < MaxPlans
              /\ main_args' = [phone |-> phone]
              /\ main_locals' = [db_user |-> db_user]
              /\ IF outcome = "db_error"
                 THEN /\ users' = users
                      /\ diet_plans' = diet_plans
                      /\ main_result' = HttpError(500, "Database error occurred")
                 ELSE IF outcome = "ai_error"
                 THEN /\ users' = stored
                      /\ diet_plans' = diet_plans
                      /\ main_result' = HttpError(500, "Failed to generate diet plan")
                 ELSE /\ users' = stored
                      /\ diet_plans' = Append(diet_plans,
                                              [user_id |-> db_user, title |-> GeneratedTitle,
                                               grocery_json |-> None])
                      /\ main_result' = HttpOk([user_id |-> db_user,
                                                plan_id |-> Len(diet_plans) + 1])
    /\ main_pc' = "returned"
    /\ main_op' = "generate_diet"
    /\ UNCHANGED checkin_vars
    /\ UNCHANGED cache_vars
    /\ UNCHANGED optimizer_vars
    /\ UNCHANGED chat_vars

SavePlan ==
    /\ main_pc = "idle"
    /\ \E user_id \in UserIds, phone \in Phones, title \in Titles :
          LET current_user  == UserWithId(users, user_id)
              latest_plan   == LatestPlanOf(diet_plans, current_user)
              existing_user == UserWithPhone(users, phone)
          IN  /\ main_args' = [user_id |-> user_id, phone |-> phone, title |-> title]
              /\ main_locals' = [current_user  |-> current_user,
                                 latest_plan   |-> latest_plan,
                                 existing_user |-> IF PhoneGiven(phone)
                                                   THEN existing_user ELSE 0]
              /\ IF current_user = 0
                 THEN /\ main_result' = HttpError(404, "User session not found.")
                      /\ UNCHANGED store_vars
                 ELSE IF latest_plan = 0
                 THEN /\ main_result' = HttpError(404, "No plan found to save.")
                      /\ UNCHANGED store_vars
                 ELSE /\ main_result' = HttpOk("Plan saved successfully!")
                      /\ IF ~PhoneGiven(phone)
                         THEN /\ users' = users
                              /\ diet_plans' =
                                    [diet_plans EXCEPT ![latest_plan].title = title]
                         ELSE IF IsReturningUser(existing_user, current_user)
                         THEN /\ users' = users
                              /\ diet_plans' =
                                    [diet_plans EXCEPT ![latest_plan].user_id = existing_user,
                                                       ![latest_plan].title = title]
                         ELSE /\ users' = [users EXCEPT ![current_user].phone = phone]
                              /\ diet_plans' =
                                    [diet_plans EXCEPT ![latest_plan].title = title]
    /\ main_pc' = "returned"
    /\ main_op' = "save_plan"
    /\ UNCHANGED checkin_vars
    /\ UNCHANGED cache_vars
    /\ UNCHANGED optimizer_vars
    /\ UNCHANGED chat_vars

NextPlans ==
    \/ GenerateDiet
    \/ SavePlan
    \/ MainReturn

SpecPlans == InitMain /\ [][NextPlans]_vars

(***************************************************************************)
(* main.py: /weekly-checkin, with the commit, rollback and close that      *)
(* get_db does around it.  A row of the three tables is kept by the        *)
(* columns the week count depends on.  The request starts from a store     *)
(* that holds one user and two plans, as two /generate-diet requests of    *)
(* one phone leave it.                                                     *)
(***************************************************************************)
InitCheckin ==
    /\ PRICE_DATABASE = PriceDatabaseSource
    /\ NUTRITIONAL_EQUIVALENTS = NutritionalEquivalentsSource
    /\ pc = "idle"
    /\ op = "none"
    /\ args = NoArgs
    /\ locals = None
    /\ result = None
    /\ previous = None
    /\ other = None
    /\ sessions = <<>>
    /\ chat_pc = "idle"
    /\ chat_op = "none"
    /\ chat_call = None
    /\ invoked = None
    /\ chat_result = None
    /\ transcript = [s \in SessionIds |-> <<>>]
    /\ cleared = {}
    /\ main_pc = "idle"
    /\ main_op = "none"
    /\ main_args = None
    /\ main_locals = None
    /\ main_result = None
    /\ users = <<[phone |-> "0000000000"]>>
    /\ diet_plans = <<[user_id |-> 1, title |-> GeneratedTitle, grocery_json |-> None],
                      [user_id |-> 1, title |-> GeneratedTitle, grocery_json |-> None]>>
    /\ weekly_checkins = <<>>
    /\ progress_snapshots = <<>>
    /\ calorie_adjustments = <<>>
    /\ answered = [p \in PlanIds |-> 0]
    /\ YOUTUBE_API_KEY = [set |-> FALSE]
    /\ recipe_video_cache = <<>>

\* previous_checkins: the rows of the plan
CheckinsOf(rows, plan_id) == SelectSeq(rows, LAMBDA r : r.diet_plan_id = plan_id)

\* what client.chat.completions.create and json.loads give: an exception, or
\* the insights, of which the model keeps whether calorie_adjustment is
\* truthy and whether recommendations is a list of strings
Insights ==
    {[raised |-> TRUE, calorie_adjustment |-> FALSE, recommendations_listed |-> FALSE]}
    \cup {[raised |-> FALSE, calorie_adjustment |-> c, recommendations_listed |-> l] :
            c \in BOOLEAN, l \in BOOLEAN}

\* db.commit() of line 2021 succeeds or raises
CommitOutcomes == {"committed", "raises"}

\* get_db after an exception of the endpoint: db.rollback() drops what was
\* added and not committed
Rollback(committed, pending) == committed

\* db.commit(): the added rows are stored
Commit(committed, pending) == committed \o pending

SubmitWeeklyCheckin ==
    /\ main_pc = "idle"
    /\ \E plan_id \in PlanIds, insights \in Insights, commit \in CommitOutcomes :
          LET plan        == IF plan_id \in 1..Len(diet_plans) THEN plan_id ELSE 0
              week_number == Len(CheckinsOf(weekly_checkins, plan_id)) + 1
              adjustment  == IF insights.calorie_adjustment
                             THEN <<[diet_plan_id |-> plan_id]>> ELSE <<>>
              checkin     == <<[diet_plan_id |-> plan_id, week_number |-> week_number]>>
              snapshot    == <<[diet_plan_id |-> plan_id, weeks_on_plan |-> week_number]>>
          IN  /\ main_args' = [plan_id |-> plan_id]
              /\ main_locals' = [week_number |-> week_number, insights |-> insights,
                                 commit |-> commit]
              /\ IF plan = 0
                 THEN /\ main_result' = HttpError(404, "Diet plan not found")
                      /\ UNCHANGED checkin_vars
                 ELSE IF insights.raised
                 THEN /\ main_result' = HttpError(500, "Check-in failed: ")
                      /\ UNCHANGED checkin_vars
                 ELSE IF commit = "raises"
                 THEN /\ main_result' = HttpError(500, "Check-in failed: ")
                      /\ weekly_checkins' = Rollback(weekly_checkins, checkin)
                      /\ progress_snapshots' = Rollback(progress_snapshots, snapshot)
                      /\ calorie_adjustments' = Rollback(calorie_adjustments, adjustment)
                      /\ answered' = answered
                 ELSE /\ Len(weekly_checkins) < MaxCheckins
                      /\ weekly_checkins' = Commit(weekly_checkins, checkin)
                      /\ progress_snapshots' = Commit(progress_snapshots, snapshot)
                      /\ calorie_adjustments' = Commit(calorie_adjustments, adjustment)
                      /\ IF insights.recommendations_listed
                         THEN /\ main_result' = HttpOk([success |-> TRUE,
                                                        week_number |-> week_number])
                              /\ answered' = [answered EXCEPT ![plan_id] = @ + 1]
                         ELSE /\ main_result' = HttpError(500, "Check-in failed: ")
                              /\ answered' = answered
    /\ main_pc' = "returned"
    /\ main_op' = "submit_weekly_checkin"
    /\ UNCHANGED store_vars
    /\ UNCHANGED cache_vars
    /\ UNCHANGED optimizer_vars
    /\ UNCHANGED chat_vars

NextCheckin ==
    \/ SubmitWeeklyCheckin
    \/ MainReturn

SpecCheckin == InitCheckin /\ [][NextCheckin]_vars

(***************************************************************************)
(* main.py: /get-recipe-video.  requests.get blocks the coroutine, so one  *)
(* request ends before the next begins.  A text put together by an         *)
(* f-string is the sequence of its pieces.                                 *)
(***************************************************************************)
\* os.getenv("YOUTUBE_API_KEY"): None when the variable is not set
ApiKeys ==
    {[set |-> FALSE],
     [set |-> TRUE, value |-> <<>>],
     [set |-> TRUE, value |-> <<" ">>],
     [set |-> TRUE, value |-> <<"A","I","z","a">>]}

MealNames ==
    {<<"d","a","l">>, <<"D","a","l">>, <<"O","a","t","s">>}

\* request.language as the f-string prints it; None prints as "None"
Languages ==
    {<<"a","n","y">>, <<"h","i","n","d","i">>, <<"N","o","n","e">>}

VideoIds == {"dQw4w9WgXcQ", "kJQP7kiw5Fk"}

\* cache_key = f"{request.meal_name.lower()}_{request.language}"
CacheKey(meal_name, language) == Lower(meal_name) \o <<"_">> \o language

\* if not YOUTUBE_API_KEY or YOUTUBE_API_KEY.strip() == ""
ApiKeyMissing(key) ==
    \/ ~key.set
    \/ key.value = <<>>
    \/ Strip(key.value) = <<>>

\* what requests.get and the reading of its response give
VideoOutcomes ==
    {[kind |-> "raises"], [kind |-> "forbidden"], [kind |-> "api_key_message"],
     [kind |-> "server_error"], [kind |-> "no_items"], [kind |-> "malformed_item"]}
    \cup {[kind |-> "video", video_id |-> v] : v \in VideoIds}

SearchLink(meal_name, thumbnail) ==
    [success   |-> TRUE,
     video_id  |-> "None",
     title     |-> <<"Search: ", meal_name, " Recipe">>,
     thumbnail |-> thumbnail,
     url       |-> <<"https://www.youtube.com/results?search_query=", meal_name>>,
     fallback  |-> TRUE]

SearchLinkError(meal_name, e) ==
    [success   |-> TRUE,
     video_id  |-> "None",
     title     |-> <<"Search: ", meal_name, " Recipe">>,
     thumbnail |-> "https://via.placeholder.com/480x360?text=Error",
     url       |-> <<"https://www.youtube.com/results?search_query=", meal_name>>,
     fallback  |-> TRUE,
     error     |-> e]

NoVideos(meal_name) ==
    [success  |-> FALSE,
     message  |-> "No recipe videos found",
     fallback |-> TRUE,
     url      |-> <<"https://www.youtube.com/results?search_query=", meal_name>>]

VideoResult(video_id) ==
    [success   |-> TRUE,
     video_id  |-> video_id,
     title     |-> <<"title of ", video_id>>,
     thumbnail |-> <<"thumbnail of ", video_id>>,
     url       |-> <<"https://www.youtube.com/watch?v=", video_id>>,
     embed_url |-> <<"https://www.youtube.com/embed/", video_id>>,
     fallback  |-> FALSE]

\* recipe_video_cache[cache_key] = result
DictStore(dict, key, value) ==
    [k \in DOMAIN dict \cup {key} |-> IF k = key THEN value ELSE dict[k]]

\* the fallbacks are stored as well
StoresResult_any(outcome) == TRUE

\* the outcomes after which line 1792 is reached
StoresResult(outcome) == outcome.kind = "video"

\* the response to an outcome of the API call
VideoResponse(meal_name, outcome) ==
    IF outcome.kind = "raises" THEN SearchLinkError(meal_name, "ReadTimeout")
    ELSE IF outcome.kind \in {"forbidden", "api_key_message"}
    THEN SearchLink(meal_name, "https://via.placeholder.com/480x360?text=API+Key+Issue")
    ELSE IF outcome.kind = "server_error"
    THEN HttpError(500, "YouTube API request failed: ")
    ELSE IF outcome.kind = "no_items" THEN NoVideos(meal_name)
    ELSE IF outcome.kind = "malformed_item" THEN SearchLinkError(meal_name, "KeyError")
    ELSE VideoResult(outcome.video_id)

InitVideo ==
    /\ PRICE_DATABASE = PriceDatabaseSource
    /\ NUTRITIONAL_EQUIVALENTS = NutritionalEquivalentsSource
    /\ pc = "idle"
    /\ op = "none"
    /\ args = NoArgs
    /\ locals = None
    /\ result = None
    /\ previous = None
    /\ other = None
    /\ sessions = <<>>
    /\ chat_pc = "idle"
    /\ chat_op = "none"
    /\ chat_call = None
    /\ invoked = None
    /\ chat_result = None
    /\ transcript = [s \in SessionIds |-> <<>>]
    /\ cleared = {}
    /\ main_pc = "idle"
    /\ main_op = "none"
    /\ main_args = None
    /\ main_locals = None
    /\ main_result = None
    /\ users = <<>>
    /\ diet_plans = <<>>
    /\ weekly_checkins = <<>>
    /\ progress_snapshots = <<>>
    /\ calorie_adjustments = <<>>
    /\ answered = [p \in PlanIds |-> 0]
    /\ YOUTUBE_API_KEY \in ApiKeys
    /\ recipe_video_cache = <<>>

\* main_locals.called tells whether the request called requests.get
GetRecipeVideo ==
    /\ main_pc = "idle"
    /\ \E meal_name \in MealNames, language \in Languages, outcome \in VideoOutcomes :
          LET cache_key == CacheKey(meal_name, language)
          IN  /\ main_args' = [meal_name |-> meal_name, language |-> language]
              /\ IF cache_key \in DOMAIN recipe_video_cache
                 THEN /\ main_result' = recipe_video_cache[cache_key]
                      /\ main_locals' = [cache_key |-> cache_key, called |-> FALSE]
                      /\ recipe_video_cache' = recipe_video_cache
                 ELSE IF ApiKeyMissing(YOUTUBE_API_KEY)
                 THEN /\ main_result' =
                            SearchLink(meal_name,
                                       "https://via.placeholder.com/480x360?text=No+API+Key")
                      /\ main_locals' = [cache_key |-> cache_key, called |-> FALSE]
                      /\ recipe_video_cache' = recipe_video_cache
                 ELSE /\ main_result' = VideoResponse(meal_name, outcome)
                      /\ main_locals' = [cache_key |-> cache_key, called |-> TRUE]
                      /\ recipe_video_cache' =
                            IF StoresResult(outcome)
                            THEN DictStore(recipe_video_cache, cache_key,
                                           VideoResponse(meal_name, outcome))
                            ELSE recipe_video_cache
    /\ main_pc' = "returned"
    /\ main_op' = "get_recipe_video"
    /\ UNCHANGED YOUTUBE_API_KEY
    /\ UNCHANGED store_vars
    /\ UNCHANGED checkin_vars
    /\ UNCHANGED optimizer_vars
    /\ UNCHANGED chat_vars

NextVideo ==
    \/ GetRecipeVideo
    \/ MainReturn

SpecVideo == InitVideo /\ [][NextVideo]_vars

(***************************************************************************)
(* main.py: /generate-grocery, the part after the AI call.  A price is     *)
(* counted in halves of a rupee, which a float holds exactly, so that the  *)
(* sums and round() are those of Python.                                   *)
(***************************************************************************)
\* item.get("estimated_price", 0) as the AI gives it: a number (45, 754.5,
\* 755, 745.5, 0, -50), a string, or no such key
ItemPrices ==
    {[number |-> 90], [number |-> 1509], [number |-> 1510], [number |-> 1491],
     [number |-> 0], [number |-> -100], [string |-> "45"], [missing |-> TRUE]}

RECURSIVE SeqsUpTo(_, _)
SeqsUpTo(S, n) ==
    IF n = 0 THEN {<<>>}
    ELSE SeqsUpTo(S, n - 1) \cup {Append(q, x) : q \in [1..(n - 1) -> S], x \in S}

ItemLists == SeqsUpTo({[estimated_price |-> p] : p \in ItemPrices}, MaxItems)

CategoryNames ==
    {<<"V","e","g","e","t","a","b","l","e","s">>, <<"D","a","i","r","y"," ","&"," ","E","g","g","s">>, <<"R","i","c","e"," ","&"," ","D","a","l">>, <<"O","i","l","s">>, <<"S","n","a","c","k","s">>}

\* grocery_data.get("categories", []): no category, one category, or a
\* category followed by one of snacks
CategoryLists ==
    {<<>>}
    \cup {<<[name |-> n, items |-> its]>> : n \in CategoryNames, its \in ItemLists}
    \cup {<<[name |-> <<"V","e","g","e","t","a","b","l","e","s">>, items |-> its],
            [name |-> <<"S","n","a","c","k","s">>, items |-> <<[estimated_price |-> [number |-> 90]]>>]>> :
            its \in ItemLists}

\* the key budget_analysis of the AI's answer: absent, or a dict with the
\* AI's own total and level
Absent == [absent |-> TRUE]

AiBudgets ==
    {Absent,
     [total_estimated |-> 500, budget_level |-> "high"],
     [total_estimated |-> 1200, budget_level |-> "low"]}

GroceryData ==
    {[categories |-> c, budget_analysis |-> b] : c \in CategoryLists, b \in AiBudgets}

\* isinstance(item_price, (int, float)) and item_price > 0
PriceCounted(item_price) ==
    "number" \in DOMAIN item_price /\ item_price.number > 0

RECURSIVE CategoryTotal(_)
CategoryTotal(items) ==
    IF items = <<>> THEN 0
    ELSE (IF PriceCounted(Head(items).estimated_price)
          THEN Head(items).estimated_price.number ELSE 0)
         + CategoryTotal(Tail(items))

RECURSIVE TotalCalculated(_)
TotalCalculated(categories) ==
    IF categories = <<>> THEN 0
    ELSE CategoryTotal(Head(categories).items) + TotalCalculated(Tail(categories))

AnyKeyword(keywords, category_name) ==
    \E keyword \in keywords : Find(category_name, keyword, 0) # -1

\* the key of breakdown_calculated a category is added to
BreakdownKey(name) ==
    LET category_name == Lower(name)
    IN  IF Find(category_name, <<"v","e","g","e","t","a","b","l","e">>, 0) # -1 THEN "vegetables"
        ELSE IF AnyKeyword({<<"d","a","i","r","y">>, <<"p","r","o","t","e","i","n">>, <<"m","e","a","t">>, <<"c","h","i","c","k","e","n">>, <<"f","i","s","h">>, <<"e","g","g">>, <<"p","a","n","e","e","r">>, <<"m","i","l","k">>, <<"y","o","g","u","r","t">>, <<"c","u","r","d">>}, category_name) THEN "dairy_proteins"
        ELSE IF AnyKeyword({<<"g","r","a","i","n">>, <<"p","u","l","s","e">>, <<"d","a","l">>, <<"r","i","c","e">>, <<"w","h","e","a","t">>, <<"a","t","t","a">>, <<"f","l","o","u","r">>}, category_name) THEN "grains_pulses"
        ELSE IF AnyKeyword({<<"s","p","i","c","e">>, <<"o","i","l">>, <<"m","a","s","a","l","a">>}, category_name) THEN "spices"
        ELSE "other"

BreakdownKeys == {"vegetables", "dairy_proteins", "grains_pulses", "spices", "other"}

RECURSIVE BreakdownCalculated(_)
BreakdownCalculated(categories) ==
    IF categories = <<>> THEN [k \in BreakdownKeys |-> 0]
    ELSE LET rest == BreakdownCalculated(Tail(categories))
             key  == BreakdownKey(Head(categories).name)
         IN  [rest EXCEPT ![key] = @ + CategoryTotal(Head(categories).items)]

\* int(round(x)) of x = halves / 2, rounding down
IntRound_floor(halves) == halves \div 2

\* int(round(x)) of x = halves / 2: the nearest integer, a tie going to the
\* even one
IntRound(halves) ==
    IF halves % 2 = 0 THEN halves \div 2
    ELSE LET below == (halves - 1) \div 2
         IN  IF below % 2 = 0 THEN below ELSE below + 1

LowBelow == 800
ModerateUpTo == 1500

\* elif total_calculated < 1500
BudgetLevel_strict(halves) ==
    IF halves < 2 * LowBelow THEN "low"
    ELSE IF halves < 2 * ModerateUpTo THEN "moderate"
    ELSE "high"

\* the if of lines 1461-1466, on the total in halves
BudgetLevel(halves) ==
    IF halves < 2 * LowBelow THEN "low"
    ELSE IF halves <= 2 * ModerateUpTo THEN "moderate"
    ELSE "high"

\* the post-processing of lines 1411-1468; a dict is the function from its
\* keys to their values, {} is <<>>
PostProcess(grocery_data) ==
    LET categories       == grocery_data.categories
        total_calculated == TotalCalculated(categories)
        breakdown        == BreakdownCalculated(categories)
        budget_analysis  == IF grocery_data.budget_analysis = Absent
                            THEN <<>> ELSE grocery_data.budget_analysis
        updated          ==
            [total_estimated |-> IntRound(total_calculated),
             breakdown       |-> [k \in BreakdownKeys |-> IntRound(breakdown[k])],
             budget_level    |-> BudgetLevel(total_calculated)]
    IN  [categories      |-> categories,
         budget_analysis |-> IF total_calculated > 0
                             THEN updated @@ budget_analysis
                             ELSE budget_analysis]

\* json.dumps(grocery_data)
JsonDumps(value) == [json |-> value]

\* what call_ai_json returned: a grocery list, or the dict with the key error
GroceryOutcomes ==
    {[error |-> "AI generation failed"]} \cup GroceryData

InitGrocery ==
    /\ PRICE_DATABASE = PriceDatabaseSource
    /\ NUTRITIONAL_EQUIVALENTS = NutritionalEquivalentsSource
    /\ pc = "idle"
    /\ op = "none"
    /\ args = NoArgs
    /\ locals = None
    /\ result = None
    /\ previous = None
    /\ other = None
    /\ sessions = <<>>
    /\ chat_pc = "idle"
    /\ chat_op = "none"
    /\ chat_call = None
    /\ invoked = None
    /\ chat_result = None
    /\ transcript = [s \in SessionIds |-> <<>>]
    /\ cleared = {}
    /\ main_pc = "idle"
    /\ main_op = "none"
    /\ main_args = None
    /\ main_locals = None
    /\ main_result = None
    /\ users = <<[phone |-> "0000000000"]>>
    /\ diet_plans = <<[user_id |-> 1, title |-> GeneratedTitle, grocery_json |-> None]>>
    /\ weekly_checkins = <<>>
    /\ progress_snapshots = <<>>
    /\ calorie_adjustments = <<>>
    /\ answered = [p \in PlanIds |-> 0]
    /\ YOUTUBE_API_KEY = [set |-> FALSE]
    /\ recipe_video_cache = <<>>

GenerateGrocery ==
    /\ main_pc = "idle"
    /\ \E plan_id \in PlanIds :
          /\ main_args' = [plan_id |-> plan_id]
          /\ IF plan_id \notin 1..Len(diet_plans)
             THEN /\ main_result' = HttpError(404, "Plan not found")
                  /\ main_locals' = None
                  /\ diet_plans' = diet_plans
             ELSE \* the list of a plan is generated once
                  /\ diet_plans[plan_id].grocery_json = None
                  /\ \E grocery_data \in GroceryOutcomes :
                        /\ main_locals' = [grocery_data |-> grocery_data]
                        /\ IF "error" \in DOMAIN grocery_data
                           THEN /\ main_result' =
                                      HttpError(500, "Failed to generate grocery list")
                                /\ diet_plans' = diet_plans
                           ELSE /\ main_result' = PostProcess(grocery_data)
                                /\ diet_plans' =
                                      [diet_plans EXCEPT ![plan_id].grocery_json =
                                          JsonDumps(PostProcess(grocery_data))]
    /\ main_pc' = "returned"
    /\ main_op' = "generate_grocery"
    /\ UNCHANGED users
    /\ UNCHANGED checkin_vars
    /\ UNCHANGED cache_vars
    /\ UNCHANGED optimizer_vars
    /\ UNCHANGED chat_vars

NextGrocery ==
    \/ GenerateGrocery
    \/ MainReturn

SpecGrocery == InitGrocery /\ [][NextGrocery]_vars

(***************************************************************************)
(* Properties                                                              *)
(***************************************************************************)
Returned(f) == pc = "returned" /\ op = f

NameOf(ingredient) == Strip(Lower(ingredient))

ListedSubstitutes(name) ==
    IF name \in DOMAIN NUTRITIONAL_EQUIVALENTS
    THEN {NUTRITIONAL_EQUIVALENTS[name].alternatives[k] :
             k \in 1..Len(NUTRITIONAL_EQUIVALENTS[name].alternatives)}
    ELSE {}

\* the listed substitutes that have a price entry and cost at most ratio
\* times the ingredient
Qualifying(name, ratio) ==
    IF name \notin DOMAIN PRICE_DATABASE THEN {}
    ELSE {a \in ListedSubstitutes(name) :
             /\ a \in DOMAIN PRICE_DATABASE
             /\ PRICE_DATABASE[a].price * ratio.den
                    <= ratio.num * PRICE_DATABASE[name].price}

Returns(seq) == {seq[i].alternative : i \in 1..Len(seq)}

\* C1: find_cheaper_alternatives returns exactly the listed substitutes that
\* have a price entry and whose price over the ingredient's price is at most
\* max_price_ratio, never one without a price entry, and each entry carries
\* savings = original price - substitute price.
C1_FindReturnsQualifying ==
    Returned("find_cheaper_alternatives") =>
        LET name == NameOf(args.ingredient)
        IN  /\ Returns(result) = Qualifying(name, args.max_price_ratio)
            /\ Len(result) = Cardinality(Qualifying(name, args.max_price_ratio))
            /\ \A i \in 1..Len(result) :
                  /\ result[i].alternative \in DOMAIN PRICE_DATABASE
                  /\ result[i].savings = PRICE_DATABASE[name].price
                                           - PRICE_DATABASE[result[i].alternative].price

\* a call that returns some substitutes, leaves one out for its price and
\* another for having no price entry
C1_Witness ==
    /\ Returned("find_cheaper_alternatives")
    /\ result # <<>>
    /\ \E a \in ListedSubstitutes(NameOf(args.ingredient)) : a \notin DOMAIN PRICE_DATABASE
    /\ \E a \in ListedSubstitutes(NameOf(args.ingredient)) :
          a \in DOMAIN PRICE_DATABASE /\ a \notin Returns(result)

\* C2: the list returned by find_cheaper_alternatives is sorted by savings,
\* highest first.
C2_FindSortedBySavings ==
    Returned("find_cheaper_alternatives") =>
        \A i \in 1..Len(result) : \A j \in 1..Len(result) :
            i < j => result[i].savings >= result[j].savings

PositionIn(seq, x) == CHOOSE k \in 1..Len(seq) : seq[k] = x

\* a result of three or more entries whose order is not the table's order
C2_Witness ==
    /\ Returned("find_cheaper_alternatives")
    /\ Len(result) >= 3
    /\ LET listed == NUTRITIONAL_EQUIVALENTS[NameOf(args.ingredient)].alternatives
       IN  \E i \in 1..Len(result) : \E j \in 1..Len(result) :
              /\ i < j
              /\ result[i].savings > result[j].savings
              /\ PositionIn(listed, result[i].alternative)
                    > PositionIn(listed, result[j].alternative)

\* C3: find_cheaper_alternatives returns an empty list for an ingredient
\* missing from the price table or from the equivalence table, whatever the
\* ratio.
C3_FindEmptyWhenMissing ==
    Returned("find_cheaper_alternatives") =>
        LET name == NameOf(args.ingredient)
        IN  (name \notin DOMAIN PRICE_DATABASE \/ name \notin DOMAIN NUTRITIONAL_EQUIVALENTS)
                => result = <<>>

\* an ingredient with listed and priced substitutes but no price of its own,
\* asked with the loosest ratio
C3_Witness ==
    /\ Returned("find_cheaper_alternatives")
    /\ NameOf(args.ingredient) \in DOMAIN NUTRITIONAL_EQUIVALENTS
    /\ NameOf(args.ingredient) \notin DOMAIN PRICE_DATABASE
    /\ \E a \in ListedSubstitutes(NameOf(args.ingredient)) : a \in DOMAIN PRICE_DATABASE
    /\ args.max_price_ratio = Ratio(3, 2)
    /\ result = <<>>

RECURSIVE SumSeq(_)
SumSeq(seq) == IF seq = <<>> THEN 0 ELSE Head(seq) + SumSeq(Tail(seq))

PriceOf(item) ==
    IF NameOf(item) \in DOMAIN PRICE_DATABASE THEN PRICE_DATABASE[NameOf(item)].price ELSE 0

\* the lowest price among the substitutes of S, that is the price of the
\* one with the highest savings
LowestPrice(S) ==
    CHOOSE p \in {PRICE_DATABASE[a].price : a \in S} :
        \A a \in S : p <= PRICE_DATABASE[a].price

OptimizedPriceOf(item) ==
    IF Qualifying(NameOf(item), Ratio(4, 5)) # {}
    THEN LowestPrice(Qualifying(NameOf(item), Ratio(4, 5)))
    ELSE PriceOf(item)

\* C4: analyze_grocery_list_with_ai reports original_cost = the sum of the
\* prices of the listed items that have a price, optimized_cost = that sum
\* with every item that has a qualifying alternative replaced by the price of
\* its highest-savings alternative, and max_savings = their difference, never
\* negative.
C4_AnalyzeCosts ==
    Returned("analyze_grocery_list_with_ai") =>
        LET list      == args.grocery_list
            original  == SumSeq([i \in 1..Len(list) |-> PriceOf(list[i])])
            optimized == SumSeq([i \in 1..Len(list) |-> OptimizedPriceOf(list[i])])
        IN  /\ result.original_cost = original
            /\ result.optimized_cost = optimized
            /\ result.max_savings = original - optimized
            /\ result.max_savings >= 0

\* a list with an item that has a qualifying alternative, an item with a
\* price and no qualifying alternative, and an item without price
C4_Witness ==
    /\ Returned("analyze_grocery_list_with_ai")
    /\ LET list == args.grocery_list
       IN  /\ \E i \in 1..Len(list) : Qualifying(NameOf(list[i]), Ratio(4, 5)) # {}
           /\ \E i \in 1..Len(list) :
                 /\ NameOf(list[i]) \in DOMAIN PRICE_DATABASE
                 /\ Qualifying(NameOf(list[i]), Ratio(4, 5)) = {}
           /\ \E i \in 1..Len(list) : NameOf(list[i]) \notin DOMAIN PRICE_DATABASE
    /\ result.max_savings > 0
    /\ result.optimized_cost > 0

ModeRatio(budget_mode) == IF budget_mode THEN Ratio(4, 5) ELSE Ratio(3, 5)

PricedSubstitutes(name) == {a \in ListedSubstitutes(name) : a \in DOMAIN PRICE_DATABASE}

\* the highest-savings substitutes of an ingredient: the cheapest ones
BestSubstitutes(name) ==
    {a \in PricedSubstitutes(name) :
        \A b \in PricedSubstitutes(name) :
            PRICE_DATABASE[a].price <= PRICE_DATABASE[b].price}

\* C5: in either mode optimized_list has the length of the input and position
\* i holds item i unchanged or the best substitute of item i; an item with no
\* qualifying substitute is passed through unchanged at its position.
C5_AutoPositional ==
    Returned("auto_optimize_grocery_list") =>
        LET in  == args.grocery_list
            out == result.optimized_list
        IN  /\ result.original_list = in
            /\ Len(out) = Len(in)
            /\ \A i \in 1..Len(in) :
                  /\ out[i] = in[i] \/ out[i] \in BestSubstitutes(NameOf(in[i]))
                  /\ Qualifying(NameOf(in[i]), ModeRatio(args.budget_mode)) = {}
                        => out[i] = in[i]

\* a list of three or more items, one replaced and a later one, which has
\* priced substitutes but none that qualifies, kept
C5_Witness ==
    /\ Returned("auto_optimize_grocery_list")
    /\ Len(args.grocery_list) >= 3
    /\ \E i \in 1..Len(args.grocery_list) : \E j \in 1..Len(args.grocery_list) :
          /\ i < j
          /\ result.optimized_list[i] # args.grocery_list[i]
          /\ result.optimized_list[j] = args.grocery_list[j]
          /\ PricedSubstitutes(NameOf(args.grocery_list[j])) # {}
          /\ Qualifying(NameOf(args.grocery_list[j]), ModeRatio(args.budget_mode)) = {}

\* C6: in conservative mode an item is substituted only when its best
\* candidate is within the ratio 0.6 and saves more than 20; an item whose
\* best candidate saves 20 or less is left unchanged.
C6_ConservativeFloor ==
    (Returned("auto_optimize_grocery_list") /\ ~args.budget_mode) =>
        \A i \in 1..Len(args.grocery_list) :
            LET item == args.grocery_list[i]
                Q    == Qualifying(NameOf(item), Ratio(3, 5))
            IN  (result.optimized_list[i] # item)
                    <=> (Q # {} /\ PriceOf(item) - LowestPrice(Q) > 20)

\* conservative mode keeps an item whose best candidate, within the ratio,
\* saves exactly 20, and replaces another item of the same list
C6_Witness ==
    /\ Returned("auto_optimize_grocery_list")
    /\ ~args.budget_mode
    /\ \E i \in 1..Len(args.grocery_list) :
          LET item == args.grocery_list[i]
              Q    == Qualifying(NameOf(item), Ratio(3, 5))
          IN  /\ Q # {}
              /\ PriceOf(item) - LowestPrice(Q) = 20
              /\ result.optimized_list[i] = item
    /\ \E j \in 1..Len(args.grocery_list) :
          result.optimized_list[j] # args.grocery_list[j]

ResultFields ==
    {"success", "ai_analysis", "all_possible_swaps", "original_cost", "optimized_cost",
     "max_savings"}

\* C8: whether the LLM call succeeds, raises or returns text that is not
\* JSON, analyze_grocery_list_with_ai returns a well-formed result and its
\* numeric fields are the ones computed before the call, so they are the
\* same in the three cases.
C8_AnalyzeNumbersSurviveLLM ==
    Returned("analyze_grocery_list_with_ai") =>
        /\ DOMAIN result = ResultFields
        /\ result.success = TRUE
        /\ result.all_possible_swaps = locals.all_swaps
        /\ result.original_cost = locals.total_original_cost
        /\ result.optimized_cost = locals.total_optimized_cost
        /\ result.max_savings = locals.total_original_cost - locals.total_optimized_cost

\* the LLM answered with text that holds no JSON and the result still
\* reports a saving
C8_Witness ==
    /\ Returned("analyze_grocery_list_with_ai")
    /\ ~args.llm.raised
    /\ ~JsonLoads(ExtractJson(args.llm.text)).ok
    /\ DOMAIN result = ResultFields
    /\ result.max_savings > 0
    /\ Len(result.all_possible_swaps) >= 2

IsFallback == "recommended_swaps" \in DOMAIN result.ai_analysis

\* C9: the template-built summary recommends at most 3 swaps and they are
\* the ones with the highest savings among all items that have a cheaper
\* alternative, not the first 3 in list order.
C9_FallbackTopThreeBySavings ==
    (Returned("analyze_grocery_list_with_ai") /\ IsFallback) =>
        LET rec     == result.ai_analysis.recommended_swaps
            swaps   == result.all_possible_swaps
            Chosen  == {rec[k].original : k \in 1..Len(rec)}
        IN  /\ Len(rec) <= 3
            /\ Len(rec) = (IF Len(swaps) < 3 THEN Len(swaps) ELSE 3)
            /\ \A k \in 1..Len(rec) : \A m \in 1..Len(swaps) :
                  swaps[m].key \notin Chosen
                      => rec[k].savings >= swaps[m].value[1].savings

C10_Case ==
    /\ Returned("find_cheaper_alternatives")
    /\ args.max_price_ratio = Ratio(1, 1)
    /\ NameOf(args.ingredient) \in DOMAIN PRICE_DATABASE
    /\ NameOf(args.ingredient) \in DOMAIN NUTRITIONAL_EQUIVALENTS

\* C10 as stated: with max_price_ratio = 1.0, for an ingredient of both
\* tables, every listed substitute that has a price entry is returned,
\* exactly once.
C10_RatioOneReturnsEveryPriced ==
    C10_Case =>
        /\ Returns(result) = PricedSubstitutes(NameOf(args.ingredient))
        /\ Len(result) = Cardinality(PricedSubstitutes(NameOf(args.ingredient)))

\* C10 amended: with max_price_ratio = 1.0, for an ingredient of both tables,
\* every listed substitute that has a price entry and does not cost more than
\* the ingredient is returned, exactly once; a dearer one is omitted.
C10_RatioOneReturnsEveryNotDearer ==
    C10_Case =>
        LET name == NameOf(args.ingredient)
        IN  /\ Returns(result) =
                  {a \in PricedSubstitutes(name) :
                      PRICE_DATABASE[a].price <= PRICE_DATABASE[name].price}
            /\ \A i \in 1..Len(result) : \A j \in 1..Len(result) :
                  i # j => result[i].alternative # result[j].alternative

\* a call with ratio 1.0 that returns a substitute at the ingredient's own
\* price and omits a dearer one
C10_Witness ==
    /\ C10_Case
    /\ \E i \in 1..Len(result) : result[i].savings = 0
    /\ \E a \in PricedSubstitutes(NameOf(args.ingredient)) : a \notin Returns(result)

SameLetter(c, d) ==
    \/ c = d
    \/ c \in DOMAIN UpperToLower /\ UpperToLower[c] = d
    \/ d \in DOMAIN UpperToLower /\ UpperToLower[d] = c

\* name is key, up to the case of its letters, between some leading and some
\* trailing whitespace
MatchesKey(name, key) ==
    \E lead \in 0..Len(name) : \E trail \in 0..Len(name) :
        /\ lead + Len(key) + trail = Len(name)
        /\ \A i \in 1..lead : name[i] \in Whitespace
        /\ \A i \in (Len(name) - trail + 1)..Len(name) : name[i] \in Whitespace
        /\ \A i \in 1..Len(key) : SameLetter(name[lead + i], key[i])

\* C11: get_ingredient_price ignores letter case and surrounding whitespace
\* and nothing else: it returns the entry of the key that the name equals up
\* to case and padding, and None for any other name, a prefix, a part or a
\* near miss of a key included.
C11_PriceLookupExactModuloCaseAndPadding ==
    Returned("get_ingredient_price") =>
        LET keys == {k \in DOMAIN PRICE_DATABASE : MatchesKey(args.ingredient, k)}
        IN  IF keys = {} THEN result = None
            ELSE /\ Cardinality(keys) = 1
                 /\ \A k \in keys : result = PRICE_DATABASE[k]

\* a name in another case and padded with whitespace is found
C11_Witness ==
    /\ Returned("get_ingredient_price")
    /\ args.ingredient \notin DOMAIN PRICE_DATABASE
    /\ \E i \in 1..Len(args.ingredient) : args.ingredient[i] \in DOMAIN UpperToLower
    /\ args.ingredient # <<>> /\ Head(args.ingredient) \in Whitespace
    /\ result # None

\* C12: substitutes of equal savings are returned in the order of the
\* equivalence list.
C12_FindTiesInTableOrder ==
    Returned("find_cheaper_alternatives") =>
        \A i \in 1..Len(result) : \A j \in 1..Len(result) :
            (i < j /\ result[i].savings = result[j].savings) =>
                LET listed == NUTRITIONAL_EQUIVALENTS[NameOf(args.ingredient)].alternatives
                IN  PositionIn(listed, result[i].alternative)
                        < PositionIn(listed, result[j].alternative)

\* two substitutes of equal savings come after one that saves more and is
\* listed after them
C12_Witness ==
    /\ Returned("find_cheaper_alternatives")
    /\ \E i \in 1..Len(result) : \E j \in 1..Len(result) : \E k \in 1..Len(result) :
          LET listed == NUTRITIONAL_EQUIVALENTS[NameOf(args.ingredient)].alternatives
          IN  /\ k < i /\ i < j
              /\ result[i].savings = result[j].savings
              /\ result[k].savings > result[i].savings
              /\ PositionIn(listed, result[k].alternative)
                    > PositionIn(listed, result[j].alternative)

AutoResultFields ==
    {"original_list", "optimized_list", "swaps_made", "total_savings", "budget_mode"}

AbsentFromBoth(item) ==
    /\ NameOf(item) \notin DOMAIN PRICE_DATABASE
    /\ NameOf(item) \notin DOMAIN NUTRITIONAL_EQUIVALENTS

\* C13: an ingredient absent from both tables comes back from
\* auto_optimize_grocery_list, in either mode, unchanged at its position and
\* without an entry in swaps_made; a list of such ingredients comes back with
\* no swaps and total_savings = 0, as a regular result.
C13_AutoAbsentIngredientUnchanged ==
    Returned("auto_optimize_grocery_list") =>
        LET in == args.grocery_list
        IN  /\ DOMAIN result = AutoResultFields
            /\ Len(result.optimized_list) = Len(in)
            /\ \A i \in 1..Len(in) :
                  AbsentFromBoth(in[i]) =>
                      /\ result.optimized_list[i] = in[i]
                      /\ \A k \in 1..Len(result.swaps_made) :
                            result.swaps_made[k].original # in[i]
            /\ (\A i \in 1..Len(in) : AbsentFromBoth(in[i])) =>
                  /\ result.swaps_made = <<>>
                  /\ result.total_savings = 0

\* the list ["unicorn meat"] in budget mode
C13_Witness ==
    /\ Returned("auto_optimize_grocery_list")
    /\ args.grocery_list = <<unicorn_meat>>
    /\ AbsentFromBoth(unicorn_meat)
    /\ args.budget_mode
    /\ result.optimized_list = <<unicorn_meat>>
    /\ result.total_savings = 0

\* C14: for the empty list analyze_grocery_list_with_ai reports original
\* cost 0, optimized cost 0, savings 0 and no swaps, and
\* auto_optimize_grocery_list, which reports no costs, an empty optimized
\* list, no swaps and total_savings 0; neither answers with an error.
C14_EmptyListZeroResult ==
    /\ (Returned("analyze_grocery_list_with_ai") /\ args.grocery_list = <<>>) =>
          /\ DOMAIN result = ResultFields
          /\ result.success = TRUE
          /\ result.original_cost = 0
          /\ result.optimized_cost = 0
          /\ result.max_savings = 0
          /\ result.all_possible_swaps = <<>>
          /\ IsFallback =>
                /\ result.ai_analysis.recommended_swaps = <<>>
                /\ result.ai_analysis.total_savings = 0
    /\ (Returned("auto_optimize_grocery_list") /\ args.grocery_list = <<>>) =>
          /\ DOMAIN result = AutoResultFields
          /\ result.original_list = <<>>
          /\ result.optimized_list = <<>>
          /\ result.swaps_made = <<>>
          /\ result.total_savings = 0

\* the empty list analysed while the LLM call fails
C14_Witness ==
    /\ Returned("analyze_grocery_list_with_ai")
    /\ args.grocery_list = <<>>
    /\ args.llm.raised
    /\ IsFallback
    /\ result.max_savings = 0

NoStore ==
    /\ PRICE_DATABASE' = PRICE_DATABASE
    /\ NUTRITIONAL_EQUIVALENTS' = NUTRITIONAL_EQUIVALENTS
    /\ (pc \in {"llm_call", "returned"} /\ pc' # "idle")
           => args'.grocery_list = args.grocery_list

\* what each call returns when it runs alone on the tables
ReturnsAsAlone ==
    /\ Returned("get_ingredient_price") => result = get_ingredient_price(args.ingredient)
    /\ Returned("find_cheaper_alternatives") =>
          result = find_cheaper_alternatives(args.ingredient, args.max_price_ratio)
    /\ Returned("analyze_grocery_list_with_ai") =>
          result = AnalyzeReturn(args.llm, AnalyzeTotals(args.grocery_list))
    /\ Returned("auto_optimize_grocery_list") =>
          /\ result = auto_optimize_grocery_list(args.grocery_list, args.budget_mode)
          /\ result.original_list = args.grocery_list
    /\ Returned("get_price_alert_ingredients") => result = get_price_alert_ingredients
    /\ other # None =>
          other.result = find_cheaper_alternatives(other.ingredient, DefaultMaxPriceRatio)

C18_Case ==
    /\ Returned("find_cheaper_alternatives")
    /\ NameOf(args.ingredient) = paneer
    /\ args.max_price_ratio = Ratio(4, 5)
    /\ paneer \in DOMAIN PRICE_DATABASE /\ PRICE_DATABASE[paneer].price = 80
    /\ tofu \in DOMAIN PRICE_DATABASE /\ PRICE_DATABASE[tofu].price = 45
    /\ tofu \in ListedSubstitutes(paneer)

\* C18: find_cheaper_alternatives("paneer", 0.8) with paneer at 80, tofu at
\* 45 and tofu listed for paneer returns exactly one suggestion: tofu,
\* original_price 80, alternative_price 45, savings 35, savings_percent
\* 43.75 (savings_percent is held in tenths: 43.75 is 437.5 tenths).
C18_PaneerOneSuggestionExactPercent ==
    C18_Case =>
        /\ Len(result) = 1
        /\ result[1].alternative = tofu
        /\ result[1].original_price = 80
        /\ result[1].alternative_price = 45
        /\ result[1].savings = 35
        /\ 10 * result[1].savings_percent = 4375

\* C18 as the code has it: the suggestion for tofu is returned with
\* original_price 80, alternative_price 45, savings 35 and savings_percent
\* 43.8, the percentage rounded to one decimal, and it is the only suggestion
\* when no other listed substitute with a price costs at most 64.
C18_PaneerTofuRoundedPercent ==
    C18_Case =>
        /\ \E i \in 1..Len(result) :
              /\ result[i].alternative = tofu
              /\ result[i].original_price = 80
              /\ result[i].alternative_price = 45
              /\ result[i].savings = 35
              /\ result[i].savings_percent = 438
        /\ (\A a \in PricedSubstitutes(paneer) \ {tofu} : PRICE_DATABASE[a].price > 64)
              <=> Len(result) = 1

\* tofu returned as the only suggestion
C18_Witness ==
    /\ C18_Case
    /\ Len(result) = 1
    /\ result[1].alternative = tofu
    /\ result[1].savings_percent = 438

C19_Case ==
    /\ Returned("analyze_grocery_list_with_ai")
    /\ args.grocery_list = <<paneer, chicken_breast>>

\* the first entry of each list of all_possible_swaps
BestSwaps(all_swaps) ==
    [i \in 1..Len(all_swaps) |-> <<all_swaps[i].key, all_swaps[i].value[1].alternative>>]

\* C19: analyze_grocery_list_with_ai(["paneer", "chicken breast"]) on the
\* tables of the source yields original cost 115, a swap for paneer only, to
\* tofu, optimized cost 80 and savings 35.
C19_PaneerChickenOnlyTofuSwap ==
    (C19_Case /\ PRICE_DATABASE = PriceDatabaseSource) =>
        /\ result.original_cost = 115
        /\ BestSwaps(result.all_possible_swaps) = <<<<paneer, tofu>>>>
        /\ result.optimized_cost = 80
        /\ result.max_savings = 35

\* C19 as the code has it: on the tables of the source the call yields
\* original cost 115, swaps for both items (paneer to boiled eggs, chicken
\* breast to chickpeas), optimized cost 22 and savings 93; without a price for
\* boiled eggs, cottage cheese and chickpeas it yields original cost 115, the
\* paneer-to-tofu swap alone, optimized cost 80 and savings 35, and that swap
\* is the one recommended when the LLM call fails.
C19_PaneerChickenBothSwapped ==
    /\ (C19_Case /\ PRICE_DATABASE = PriceDatabaseSource) =>
          /\ result.original_cost = 115
          /\ BestSwaps(result.all_possible_swaps)
                = <<<<paneer, boiled_eggs>>, <<chicken_breast, chickpeas>>>>
          /\ result.optimized_cost = 22
          /\ result.max_savings = 93
    /\ (C19_Case /\ PRICE_DATABASE = PriceDatabaseScenario) =>
          /\ result.original_cost = 115
          /\ BestSwaps(result.all_possible_swaps) = <<<<paneer, tofu>>>>
          /\ Len(result.all_possible_swaps[1].value) = 1
          /\ result.optimized_cost = 80
          /\ result.max_savings = 35
          /\ IsFallback =>
                /\ Len(result.ai_analysis.recommended_swaps) = 1
                /\ result.ai_analysis.recommended_swaps[1].original = paneer
                /\ result.ai_analysis.recommended_swaps[1].replacement = tofu
                /\ result.ai_analysis.total_savings = 35

\* the call answered on the tables of the source after the LLM call failed
C19_Witness ==
    /\ C19_Case
    /\ PRICE_DATABASE = PriceDatabaseSource
    /\ IsFallback
    /\ result.max_savings = 93
    /\ Len(result.ai_analysis.recommended_swaps) = 2

\* the message that an entry of the transcript is sent to the LLM as
AsMessage(entry) ==
    IF entry.role = "user"
    THEN HumanMessage(enhanced_message(entry.user_message, entry.context))
    ELSE AIMessage(entry.content)

UserEntries(t) == Cardinality({i \in 1..Len(t) : t[i].role = "user"})

\* at each call of the LLM: the system prompt, then all that the user sent
\* and was answered in this session, in order, the new message last
InvokeSeesWholeSession ==
    chat_pc = "llm" =>
        LET t == transcript[chat_call.session_id]
            n == UserEntries(t)
        IN  /\ invoked = <<SystemMessage(system_prompt)>>
                            \o [i \in 1..Len(t) |-> AsMessage(t[i])]
            /\ Len(invoked) = 2 * n
            /\ \A i \in 2..Len(invoked) :
                  invoked[i].type = IF i % 2 = 0 THEN "human" ELSE "ai"
            /\ invoked[Len(invoked)]
                  = HumanMessage(enhanced_message(chat_call.user_message, chat_call.context))

IsPrefix(a, b) == Len(a) <= Len(b) /\ SubSeq(b, 1, Len(a)) = a

\* a step keeps the messages of every session, in place and in order, unless
\* it is clear_session for that session
KeptUntilCleared ==
    \A s \in DOMAIN sessions :
        \/ s \in DOMAIN sessions' /\ IsPrefix(sessions[s], sessions'[s])
        \/ chat_op' = "clear_session" /\ chat_call'.session_id = s

\* get_conversation_history returns the whole transcript of the session
HistoryIsTranscript ==
    (chat_pc = "returned" /\ chat_op = "get_conversation_history") =>
        LET t == transcript[chat_call.session_id]
        IN  chat_result = [i \in 1..Len(t) |->
                              [role |-> t[i].role, content |-> AsMessage(t[i]).content]]

\* C20: the n-th chat() call of a session invokes the LLM with the system
\* prompt first, then every earlier user and assistant message of the
\* session in the order they occurred, then the new user message (2n
\* messages), and no step but clear_session for the session removes or
\* changes a message of it: get_conversation_history returns them all.
C20_SessionRemembered ==
    /\ []InvokeSeesWholeSession
    /\ [][KeptUntilCleared]_vars
    /\ []HistoryIsTranscript

\* the second call of a session is at the LLM for the second time, after a
\* first attempt that failed, while the other session holds messages too
C20_Witness ==
    /\ chat_pc = "llm"
    /\ chat_call.attempt = 1
    /\ Len(invoked) = 4
    /\ invoked[3].type = "ai"
    /\ \E s \in DOMAIN sessions : s # chat_call.session_id /\ Len(sessions[s]) = 3

ChatReturned(f) == chat_pc = "returned" /\ chat_op = f

\* a step that is a call of clear_session
ClearStep == chat_pc = "idle" /\ chat_op' = "clear_session"

\* a step that begins a call of chat()
ChatStep == chat_pc = "idle" /\ chat_op' = "chat"

\* clear_session answers whether the session existed and leaves it deleted
ClearAnswersExistence ==
    ClearStep =>
        /\ chat_result' = (chat_call'.session_id \in DOMAIN sessions)
        /\ chat_call'.session_id \notin DOMAIN sessions'

\* chat() on a session that does not exist starts its history with the
\* system prompt, then the new message
ChatStartsFresh ==
    (ChatStep /\ chat_call'.session_id \notin DOMAIN sessions) =>
        /\ Len(sessions'[chat_call'.session_id]) = 2
        /\ sessions'[chat_call'.session_id][1] = SystemMessage(system_prompt)
        /\ sessions'[chat_call'.session_id][2].type = "human"

\* a session that was cleared and not written to since does not exist and
\* has an empty conversation history
ClearedIsGone ==
    \A s \in cleared :
        /\ s \notin DOMAIN sessions
        /\ get_conversation_history(sessions, s) = <<>>

\* C21: clear_session(s) returns True exactly when session s exists; after
\* it returns get_conversation_history(s) is empty and the session is gone,
\* so that a second clear_session(s) returns False, and the next chat() on s
\* starts a history of the system prompt followed by the new message.
C21_ClearSession ==
    /\ [][ClearAnswersExistence /\ ChatStartsFresh]_vars
    /\ []ClearedIsGone
    /\ [][(ClearStep /\ chat_call'.session_id \in cleared) => chat_result' = FALSE]_vars

\* clear_session has answered False for a session that it deleted before,
\* while the other session still holds its messages
C21_Witness ==
    /\ ChatReturned("clear_session")
    /\ chat_result = FALSE
    /\ chat_call.session_id \in cleared
    /\ \E s \in DOMAIN sessions : Len(sessions[s]) >= 3

\* the texts that make an error one to try again, in lower case
RetryableText(e) ==
    \E w \in {<<"o","v","e","r","l","o","a","d","e","d">>, <<"5","2","9">>,
              <<"c","o","n","n","e","c","t","i","o","n">>, <<"t","i","m","e","o","u","t">>,
              <<"r","a","t","e"," ","l","i","m","i","t">>, <<"4","2","9">>} :
        \E i \in 0..Len(e) : StartsAt(Lower(e), w, i)

ChatErrorTexts ==
    {<<"I'm experiencing high demand right now. Please try again in a moment!">>,
     <<"Connection timeout. The AI service is responding slowly. Please try again!">>,
     <<"The AI service is temporarily unavailable. Please try again shortly!">>}
    \cup {<<"Sorry, I encountered an error: ", e>> : e \in LLMErrors}

\* the attempts of the call of chat() in progress: the LLM is invoked once
\* per attempt, attempt 0 and at most attempt 1; attempt 1 is made only
\* after attempt 0 raised a retryable error; an error that is not retryable
\* ends the call at once; what is returned is the answer or an error text
AtMostTwoAttempts ==
    chat_op = "chat" =>
        /\ chat_call.attempt \in {0, 1}
        /\ chat_call.attempt = 1 =>
              /\ Len(chat_call.raised) >= 1
              /\ RetryableText(chat_call.raised[1])
        /\ chat_pc \in {"invoke", "llm"} => Len(chat_call.raised) = chat_call.attempt
        /\ chat_pc = "returned" =>
              /\ Len(chat_call.raised) \in {chat_call.attempt, chat_call.attempt + 1}
              /\ (Len(chat_call.raised) >= 1 /\ ~RetryableText(chat_call.raised[1]))
                    => (chat_call.attempt = 0 /\ Len(chat_call.raised) = 1)
              /\ Len(chat_call.raised) = chat_call.attempt => chat_result \in LLMReplies
              /\ Len(chat_call.raised) > chat_call.attempt => chat_result \in ChatErrorTexts

\* C22: a call of chat() invokes the LLM at most 2 times, the second time
\* only after a retryable error of the first; an error that is not retryable
\* ends the call after one attempt; every call that has begun returns, with
\* the answer or an error text.
C22_ChatAtMostTwoAttempts ==
    /\ []AtMostTwoAttempts
    /\ (chat_pc = "invoke" ~> chat_pc = "returned")

\* a call has returned an error text after a second attempt
C22_Witness ==
    /\ ChatReturned("chat")
    /\ chat_call.attempt = 1
    /\ Len(chat_call.raised) = 2
    /\ chat_result \in ChatErrorTexts

\* a history as chat() leaves it: the system message, then user and
\* assistant messages in turn, the last one an assistant message
WellFormedHistory(messages) ==
    /\ Len(messages) >= 3
    /\ Len(messages) % 2 = 1
    /\ messages[1].type = "system"
    /\ \A i \in 2..Len(messages) :
          messages[i].type = IF i % 2 = 0 THEN "human" ELSE "ai"

\* the session of the call of chat() that is running, if one is
Running == IF chat_pc \in {"invoke", "llm"} THEN {chat_call.session_id} ELSE {}

\* between calls every history is well formed, and so is every history but
\* that of the running call during a call; a call adds one user message when
\* it begins, none while it retries, and one assistant message when it ends
OneUserOneAssistantPerCall ==
    /\ \A s \in DOMAIN sessions \ Running : WellFormedHistory(sessions[s])
    /\ \A s \in Running :
          /\ WellFormedHistory(Append(sessions[s], AIMessage(<<"pending">>)))
          /\ Len(sessions[s]) = 2 * UserEntries(transcript[s])
    /\ ChatReturned("chat") =>
          /\ Len(sessions[chat_call.session_id])
                = 2 * UserEntries(transcript[chat_call.session_id]) + 1
          /\ sessions[chat_call.session_id][Len(sessions[chat_call.session_id])]
                = AIMessage(chat_result)

\* C23: after any sequence of chat() calls each existing history is one
\* system message followed by alternating user and assistant messages ending
\* with an assistant message; each call appends exactly one user message and
\* exactly one assistant message, the answer or the error text, however many
\* attempts it made.
C23_HistoryAlternates == OneUserOneAssistantPerCall

\* a call that was tried twice and failed has returned in a session that held
\* a turn already
C23_Witness ==
    /\ ChatReturned("chat")
    /\ chat_call.attempt = 1
    /\ Len(chat_call.raised) = 2
    /\ Len(sessions[chat_call.session_id]) = 5

\* the session a step is called for
SessionOf(call) == IF call = None THEN {} ELSE {call.session_id}

\* a step leaves every session but the one it is called for as it was,
\* present or not
OtherSessionsKept ==
    \A s \in SessionIds \ (SessionOf(chat_call) \cup SessionOf(chat_call')) :
        /\ s \in DOMAIN sessions <=> s \in DOMAIN sessions'
        /\ s \in DOMAIN sessions => sessions'[s] = sessions[s]

\* get_conversation_history creates no session, and answers with the empty
\* list for a session that does not exist
HistoryOfUnknown ==
    (chat_pc = "idle" /\ chat_op' = "get_conversation_history") =>
        /\ sessions' = sessions
        /\ chat_call'.session_id \notin DOMAIN sessions => chat_result' = <<>>

\* C30: chat(), get_conversation_history() and clear_session() on one
\* session leave the history of every other session unchanged, and
\* get_conversation_history() on an unknown session returns the empty list
\* and creates no session.
C30_SessionsIsolated == [][OtherSessionsKept /\ HistoryOfUnknown]_vars

\* get_conversation_history has returned the empty list for a session that
\* does not exist while the other session holds a conversation
C30_Witness ==
    /\ ChatReturned("get_conversation_history")
    /\ chat_call.session_id \notin DOMAIN sessions
    /\ chat_result = <<>>
    /\ \E s \in DOMAIN sessions : Len(sessions[s]) >= 3

\* the positions at which two lists of one length differ
Differing(a, b) == {i \in 1..Len(a) : a[i] # b[i]}

RECURSIVE SavingsTotal(_)
SavingsTotal(swaps) ==
    IF swaps = <<>> THEN 0 ELSE Head(swaps).savings + SavingsTotal(Tail(swaps))

\* C25: every swap made by auto_optimize_grocery_list, in either mode, saves
\* a strictly positive amount, its replacement being strictly cheaper than
\* the original; total_savings is the sum of the savings of swaps_made and is
\* not negative; swaps_made has exactly one entry per position at which
\* optimized_list differs from the input.
C25_AutoSwapsSavePositive ==
    Returned("auto_optimize_grocery_list") =>
        /\ \A k \in 1..Len(result.swaps_made) :
              /\ result.swaps_made[k].savings > 0
              /\ PRICE_DATABASE[result.swaps_made[k].replacement].price
                    < PRICE_DATABASE[NameOf(result.swaps_made[k].original)].price
        /\ result.total_savings = SavingsTotal(result.swaps_made)
        /\ result.total_savings >= 0
        /\ Len(result.swaps_made)
              = Cardinality(Differing(result.optimized_list, args.grocery_list))
        /\ \A i \in Differing(result.optimized_list, args.grocery_list) :
              \E k \in 1..Len(result.swaps_made) :
                  /\ result.swaps_made[k].original = args.grocery_list[i]
                  /\ result.swaps_made[k].replacement = result.optimized_list[i]

\* a call that swapped two items and kept a priced one that has substitutes
\* between 0.8 and 1.5 of its price only
C25_Witness ==
    /\ Returned("auto_optimize_grocery_list")
    /\ args.budget_mode
    /\ Len(result.swaps_made) = 2
    /\ result.total_savings > 0
    /\ \E i \in 1..Len(args.grocery_list) :
          /\ result.optimized_list[i] = args.grocery_list[i]
          /\ Qualifying(NameOf(args.grocery_list[i]), Ratio(3, 2)) # {}
          /\ Qualifying(NameOf(args.grocery_list[i]), Ratio(4, 5)) = {}

MainReturned(f) == main_pc = "returned" /\ main_op = f

Parses(outcome) == TryAttempt(outcome).ok

\* the calls made to the AI service so far
AiCalls == IF main_op = "call_ai_json" THEN Len(main_locals.seen) ELSE 0

AiAllowed == IF main_args.max_retries > 0 THEN main_args.max_retries ELSE 0

\* C24: call_ai_json calls the AI service at most max_retries times; it
\* returns the parsed JSON of the first attempt whose response parses, having
\* made no call after it; when each of its max_retries attempts fails (the
\* service raises or the content does not parse) it returns a dict with the
\* key "error", never an exception.
C24_CallAiJsonRetries ==
    /\ main_op = "call_ai_json" => AiCalls <= AiAllowed
    /\ MainReturned("call_ai_json") =>
          LET seen == main_locals.seen
          IN  IF \E i \in 1..Len(seen) : Parses(seen[i])
              THEN /\ Parses(seen[Len(seen)])
                   /\ \A i \in 1..(Len(seen) - 1) : ~Parses(seen[i])
                   /\ main_result = TryAttempt(seen[Len(seen)]).value
              ELSE /\ Len(seen) = AiAllowed
                   /\ "error" \in DOMAIN main_result

\* a call with max_retries = 2 whose first response did not parse and whose
\* second did
C24_Witness ==
    /\ MainReturned("call_ai_json")
    /\ main_args.max_retries = 2
    /\ Len(main_locals.seen) = 2
    /\ ~main_locals.seen[1].raised
    /\ ~Parses(main_locals.seen[1])
    /\ main_result = [object |-> <<>>]

UniquePhones ==
    \A i, j \in 1..Len(users) : users[i].phone = users[j].phone => i = j

\* a /save-plan request is served: the session user exists and has a plan
SavePlanServed ==
    /\ main_pc = "idle"
    /\ main_pc' = "returned"
    /\ main_op' = "save_plan"
    /\ main_args'.user_id \in 1..Len(users)
    /\ LatestPlanOf(diet_plans, main_args'.user_id) # 0

OthersHolding(phone, user_id) ==
    {i \in 1..Len(users) : users[i].phone = phone} \ {user_id}

\* the plan goes to the user who holds the phone, and no phone changes
PlanReassigned(user_id, phone) ==
    /\ diet_plans'[LatestPlanOf(diet_plans, user_id)].user_id
          \in OthersHolding(phone, user_id)
    /\ users' = users

\* the phone is written to the session user, who keeps the plan
PhoneClaimed(user_id, phone) ==
    /\ users'[user_id].phone = phone
    /\ \A i \in 1..Len(users) : i # user_id => users'[i] = users[i]
    /\ diet_plans'[LatestPlanOf(diet_plans, user_id)].user_id = user_id

\* only the title of the plan is written
OnlyTitled(user_id) ==
    /\ users' = users
    /\ diet_plans'[LatestPlanOf(diet_plans, user_id)].user_id = user_id

PlansElsewhereKept(user_id) ==
    /\ Len(diet_plans') = Len(diet_plans)
    /\ \A p \in 1..Len(diet_plans) :
          p # LatestPlanOf(diet_plans, user_id) => diet_plans'[p] = diet_plans[p]

\* C26: no two user rows hold the same phone; a served /save-plan whose
\* phone is held by another user moves the session user's latest plan to that
\* user and changes no phone; otherwise, whatever the phone, it is written to
\* the session user, who keeps the plan.
C26_SavePlanAnyPhone ==
    /\ []UniquePhones
    /\ [][SavePlanServed =>
            IF OthersHolding(main_args'.phone, main_args'.user_id) # {}
            THEN PlanReassigned(main_args'.user_id, main_args'.phone)
            ELSE PhoneClaimed(main_args'.user_id, main_args'.phone)]_vars

\* C26 as the code has it: the same for a phone that is not empty; with an
\* empty phone the request writes the title only, whoever holds the empty
\* phone.  No other plan is touched.
C26_SavePlanGivenPhone ==
    /\ []UniquePhones
    /\ [][SavePlanServed =>
            /\ PlansElsewhereKept(main_args'.user_id)
            /\ IF ~PhoneGiven(main_args'.phone)
               THEN OnlyTitled(main_args'.user_id)
               ELSE IF OthersHolding(main_args'.phone, main_args'.user_id) # {}
               THEN PlanReassigned(main_args'.user_id, main_args'.phone)
               ELSE PhoneClaimed(main_args'.user_id, main_args'.phone)]_vars

\* a served /save-plan whose phone was held by another user: the plan is now
\* theirs, three users are stored, and the session user has its phone still
C26_Witness ==
    /\ MainReturned("save_plan")
    /\ main_result.status = 200
    /\ Len(users) = 3
    /\ main_locals.existing_user \notin {0, main_locals.current_user}
    /\ diet_plans[main_locals.latest_plan].user_id = main_locals.existing_user
    /\ users[main_locals.current_user].phone # main_args.phone

WeeksOf(plan_id) ==
    LET rows == CheckinsOf(weekly_checkins, plan_id)
    IN  [i \in 1..Len(rows) |-> rows[i].week_number]

CheckinFails ==
    /\ main_pc = "idle"
    /\ main_pc' = "returned"
    /\ main_op' = "submit_weekly_checkin"
    /\ main_result'.status # 200

\* C27: for every plan the stored check-ins have the week numbers 1, 2, ...,
\* n in the order they were submitted, n being the number of /weekly-checkin
\* requests of the plan that were answered with success; and a request that
\* fails leaves the tables weekly_checkins, progress_snapshots and
\* calorie_adjustments as they were.
C27_CheckinWeeksCountSuccesses ==
    /\ [](\A plan_id \in PlanIds :
            WeeksOf(plan_id) = [i \in 1..answered[plan_id] |-> i])
    /\ [][CheckinFails =>
            /\ weekly_checkins' = weekly_checkins
            /\ progress_snapshots' = progress_snapshots
            /\ calorie_adjustments' = calorie_adjustments]_vars

\* the key of a request: the meal name in lower case, "_", the language
LoweredKey(request) == Lower(request.meal_name) \o <<"_">> \o request.language

VideoStep ==
    /\ main_pc = "idle"
    /\ main_pc' = "returned"
    /\ main_op' = "get_recipe_video"

OnlyLookupsCached ==
    \A k \in DOMAIN recipe_video_cache :
        /\ recipe_video_cache[k].fallback = FALSE
        /\ recipe_video_cache[k].success = TRUE
        /\ recipe_video_cache[k].video_id \in VideoIds
        /\ \E m \in MealNames, l \in Languages : k = Lower(m) \o <<"_">> \o l

EntriesKept ==
    \A k \in DOMAIN recipe_video_cache :
        /\ k \in DOMAIN recipe_video_cache'
        /\ recipe_video_cache'[k] = recipe_video_cache[k]

HitAnswersStored ==
    (VideoStep /\ LoweredKey(main_args') \in DOMAIN recipe_video_cache) =>
        /\ main_result' = recipe_video_cache[LoweredKey(main_args')]
        /\ ~main_locals'.called
        /\ recipe_video_cache' = recipe_video_cache

StoredIsAnswer ==
    (VideoStep /\ recipe_video_cache' # recipe_video_cache) =>
        /\ main_locals'.called
        /\ DOMAIN recipe_video_cache' =
              DOMAIN recipe_video_cache \cup {LoweredKey(main_args')}
        /\ recipe_video_cache'[LoweredKey(main_args')] = main_result'

\* C28: the recipe-video cache holds only results of a successful YouTube
\* lookup (fallback False), under the key made of the lower-cased meal name
\* and the language, each being the answer given to the request that stored
\* it; a request whose key is stored is answered with the stored result
\* without a call of the API; no entry is changed or removed.
C28_VideoCacheOnlyLookups ==
    /\ []OnlyLookupsCached
    /\ [][EntriesKept /\ HitAnswersStored /\ StoredIsAnswer]_vars

\* a request for "Dal" answered from the entry a request for "dal" stored,
\* while the cache holds a second entry
C28_Witness ==
    /\ MainReturned("get_recipe_video")
    /\ main_args.meal_name = <<"D","a","l">>
    /\ ~main_locals.called
    /\ main_locals.cache_key \in DOMAIN recipe_video_cache
    /\ main_result = recipe_video_cache[main_locals.cache_key]
    /\ Cardinality(DOMAIN recipe_video_cache) >= 2

\* a grocery list was returned by /generate-grocery
GroceryReturned ==
    /\ MainReturned("generate_grocery")
    /\ "categories" \in DOMAIN main_result

RECURSIVE AllItems(_)
AllItems(categories) ==
    IF categories = <<>> THEN <<>>
    ELSE Head(categories).items \o AllItems(Tail(categories))

\* the sum, in halves, of the estimated_price of the items that have a number
\* there
RECURSIVE SumOfPrices(_)
SumOfPrices(items) ==
    IF items = <<>> THEN 0
    ELSE (IF "number" \in DOMAIN Head(items).estimated_price
          THEN Head(items).estimated_price.number ELSE 0)
         + SumOfPrices(Tail(items))

\* the sum, in halves, of the prices that are numbers above 0
RECURSIVE SumOfPositive(_)
SumOfPositive(items) ==
    IF items = <<>> THEN 0
    ELSE (IF /\ "number" \in DOMAIN Head(items).estimated_price
             /\ Head(items).estimated_price.number > 0
          THEN Head(items).estimated_price.number ELSE 0)
         + SumOfPositive(Tail(items))

LevelOfTotal(total) ==
    IF total < 800 THEN "low" ELSE IF total <= 1500 THEN "moderate" ELSE "high"

====
